---- MODULE Spec2Model ----
(***************************************************************************)
(* Model of the authoritative Battleship server (src/server/server.js):    *)
(* the fleet sanitizer (sanitizeFleet), the room state machine driven by   *)
(* the WebSocket message handler, and the room registry.                   *)
(***************************************************************************)
EXTENDS Integers, Sequences, FiniteSets, TLC

VARIABLES
    rooms,      \* the registry: a function from the live codes to their rooms
    conns,      \* the WebSocket connections: open, room, playerId
    nextPid,    \* how many player identifiers randomUUID has handed out
    sent,       \* the messages sent while handling the last event
    canvas,     \* the grid a client is building for a PLACE_FLEET payload
    sanStep,    \* how many ships of the base layout have been handled
    sanDev,     \* whether the client has deviated from the base layout
    sanPc,      \* "idle", "paint" or "done"
    sanPayload, \* the payload handed to sanitizeFleet
    sanClean,   \* what sanitizeFleet returned for it
    up,         \* whether the server process is running
    clock,      \* now(): the time in milliseconds
    limiter,    \* per connection, the windowStart and count of its okRate
    passed,     \* per connection, how many messages okRate let through at each time
    cpCall,     \* the arguments of a call of the client's canPlace
    cpRet,      \* what the call did: its outcome and the board it left
    client      \* the board and the ships of the fleet a client is placing

(***************************************************************************)
(* Program constants and small helpers (server.js:72-91)                   *)
(***************************************************************************)
SIZE == 10

EMPTY == 0

Idx == 0 .. (SIZE - 1)

Cells == Idx \X Idx

\* [5,4,3,3,2], the literal of server.js:236
WantedLengths == <<5, 4, 3, 3, 2>>

Min2(a, b) == IF a < b THEN a ELSE b

Max2(a, b) == IF a > b THEN a ELSE b

clamp(n, lo, hi) == Max2(lo, Min2(hi, n))

emptyBoard == [r \in Idx |-> [c \in Idx |-> EMPTY]]

inb(rr, cc) == rr >= 0 /\ rr < SIZE /\ cc >= 0 /\ cc < SIZE

SeqToSet(s) == {s[i] : i \in 1 .. Len(s)}

(***************************************************************************)
(* JSON values as they arrive in a message.  A value carries its JS type   *)
(* in field t; only integers carry a number.                               *)
(***************************************************************************)
JNull == [t |-> "null"]

JStr == [t |-> "string"]

JInt(n) == [t |-> "int", v |-> n]

JArr(items) == [t |-> "array", items |-> items]

JObj(b) == [t |-> "object", board |-> b]

\* the JSON form of a SIZE x SIZE integer grid
JBoard(g) == JObj(JArr([r \in 1 .. SIZE |-> JArr([c \in 1 .. SIZE |-> JInt(g[r - 1][c - 1])])]))

IsArray(x) == x.t = "array"

IsInteger(x) == x.t = "int"

(***************************************************************************)
(* sanitizeFleet (server.js:169-249)                                       *)
(***************************************************************************)
\* the result {} of sanitizeFleet
Rejected == [ok |-> FALSE]

\* lines 171-182: shape and number validation
RowOK(row) ==
    /\ IsArray(row)
    /\ Len(row.items) = SIZE
    /\ \A c \in 1 .. SIZE : IsInteger(row.items[c]) /\ ~(row.items[c].v < 0)

ShapeOK(payload) ==
    /\ payload.t = "object"
    /\ IsArray(payload.board)
    /\ Len(payload.board.items) = SIZE
    /\ \A r \in 1 .. SIZE : RowOK(payload.board.items[r])

\* the validated board as a grid of integers
GridOf(payload) ==
    [r \in Idx |-> [c \in Idx |-> payload.board.items[r + 1].items[c + 1].v]]

\* a faulty orientation test that never looks down
OrientRowOnly(board, r, c) ==
    IF inb(r, c + 1) /\ board[r][c + 1] = board[r][c] THEN "H" ELSE "S"

\* lines 194-198: decide orientation
Orient(board, r, c) ==
    LET id == board[r][c] IN
    IF inb(r, c + 1) /\ board[r][c + 1] = id THEN "H"
    ELSE IF inb(r + 1, c) /\ board[r + 1][c] = id THEN "V"
    ELSE "S"

\* lines 201-207: walk right while the id continues and the cell is unvisited
RECURSIVE WalkH(_, _, _, _, _)
WalkH(board, visited, id, r, cc) ==
    IF inb(r, cc) /\ board[r][cc] = id /\ <<r, cc>> \notin visited
    THEN <<<<r, cc>>>> \o WalkH(board, visited \cup {<<r, cc>>}, id, r, cc + 1)
    ELSE <<>>

\* lines 208-214: walk down while the id continues and the cell is unvisited
RECURSIVE WalkV(_, _, _, _, _)
WalkV(board, visited, id, rr, c) ==
    IF inb(rr, c) /\ board[rr][c] = id /\ <<rr, c>> \notin visited
    THEN <<<<rr, c>>>> \o WalkV(board, visited \cup {<<rr, c>>}, id, rr + 1, c)
    ELSE <<>>

\* lines 200-218: the cells of the run starting at (r,c)
RunCells(board, visited, r, c) ==
    LET id == board[r][c]
        orient == Orient(board, r, c)
    IN  IF orient = "H" THEN WalkH(board, visited, id, r, c)
        ELSE IF orient = "V" THEN WalkV(board, visited, id, r, c)
        ELSE <<<<r, c>>>>

\* line 222: the four orthogonal neighbours
Nbrs(rr, cc) == {<<rr, cc - 1>>, <<rr, cc + 1>>, <<rr - 1, cc>>, <<rr + 1, cc>>}

\* a faulty branch check that looks at the left and right neighbours only
HasBranchInRow(board, id, cells) ==
    \E i \in 1 .. Len(cells) :
        \E n \in {<<cells[i][1], cells[i][2] - 1>>, <<cells[i][1], cells[i][2] + 1>>} :
            /\ inb(n[1], n[2])
            /\ board[n[1]][n[2]] = id
            /\ n \notin SeqToSet(cells)

\* lines 220-228: some cell of the run has a same-id neighbour outside it
HasBranch(board, id, cells) ==
    \E i \in 1 .. Len(cells) :
        \E n \in Nbrs(cells[i][1], cells[i][2]) :
            /\ inb(n[1], n[2])
            /\ board[n[1]][n[2]] = id
            /\ n \notin SeqToSet(cells)

\* the position of cell x in the row-major order of the two for loops
Lin(x) == x[1] * SIZE + x[2]

FirstCell(S) == CHOOSE x \in S : \A y \in S : Lin(x) <= Lin(y)

\* lines 189-233: the row-major scan from position k on.  The loops skip
\* ("continue", line 192) to the next cell that is occupied and unvisited.
RECURSIVE ScanFrom(_, _, _, _)
ScanFrom(board, k, visited, ships) ==
    LET todo == {x \in Cells : Lin(x) >= k /\ board[x[1]][x[2]] # EMPTY /\ x \notin visited}
    IN  IF todo = {} THEN [ok |-> TRUE, ships |-> ships]
        ELSE
            LET r == FirstCell(todo)[1]
                c == FirstCell(todo)[2]
                id == board[r][c]
                cells == RunCells(board, visited, r, c)
            IN  IF HasBranch(board, id, cells) THEN Rejected
                ELSE ScanFrom(board, Lin(<<r, c>>) + 1, visited \cup SeqToSet(cells),
                              Append(ships, [id |-> id, length |-> Len(cells),
                                             cells |-> cells, hits |-> <<>>]))

\* numbers.sort((a,b)=>b-a): insertion into a descending sequence
RECURSIVE InsertDesc(_, _)
InsertDesc(x, s) ==
    IF s = <<>> THEN <<x>>
    ELSE IF x > s[1] THEN <<x>> \o s
    ELSE <<s[1]>> \o InsertDesc(x, Tail(s))

RECURSIVE SortDesc(_)
SortDesc(s) ==
    IF s = <<>> THEN <<>>
    ELSE InsertDesc(s[Len(s)], SortDesc(SubSeq(s, 1, Len(s) - 1)))

\* ships.sort((a,b)=>a.id-b.id): Array.prototype.sort is stable, so a ship
\* goes after the ships of equal id that precede it
RECURSIVE InsertById(_, _)
InsertById(x, s) ==
    IF s = <<>> THEN <<x>>
    ELSE IF x.id < s[1].id THEN <<x>> \o s
    ELSE <<s[1]>> \o InsertById(x, Tail(s))

\* a faulty sort that leaves the ships in scan order
KeepScanOrder(s) == s

RECURSIVE SortById(_)
SortById(s) ==
    IF s = <<>> THEN <<>>
    ELSE InsertById(s[Len(s)], SortById(SubSeq(s, 1, Len(s) - 1)))

\* a faulty length check that compares the lengths as sets
LengthsAsSet(ships) ==
    {ships[i].length : i \in 1 .. Len(ships)} = SeqToSet(WantedLengths)

\* a faulty length check that counts the ships only
LengthsCounted(ships) == Len(ships) = Len(WantedLengths)

\* lines 235-238: ships.map(s => s.length).sort((a,b)=>b-a) against [5,4,3,3,2]
LengthsOK(ships) ==
    SortDesc([i \in 1 .. Len(ships) |-> ships[i].length]) = SortDesc(WantedLengths)

\* a faulty renumbering that counts from 0
RenumberFromZero(ships) ==
    LET sorted == SortById(ships) IN
    [i \in 1 .. Len(sorted) |-> [sorted[i] EXCEPT !.id = i - 1]]

\* line 241: sort by id, then renumber 1..N
Renumber(ships) ==
    LET sorted == SortById(ships) IN
    [i \in 1 .. Len(sorted) |-> [sorted[i] EXCEPT !.id = i]]

\* lines 242-243: rebuild the board from the renumbered ships, in order
RECURSIVE PaintShips(_, _, _)
PaintShips(board, ships, i) ==
    IF i > Len(ships) THEN board
    ELSE PaintShips(
            [r \in Idx |-> [c \in Idx |->
                IF <<r, c>> \in SeqToSet(ships[i].cells) THEN ships[i].id ELSE board[r][c]]],
            ships, i + 1)

sanitizeFleet(payload) ==
    IF ~ShapeOK(payload) THEN Rejected
    ELSE
        LET scan == ScanFrom(GridOf(payload), 0, {}, <<>>) IN
        IF ~scan.ok THEN Rejected
        ELSE IF ~LengthsOK(scan.ships) THEN Rejected
        ELSE LET ships == Renumber(scan.ships) IN
             [ok |-> TRUE, board |-> PaintShips(emptyBoard, ships, 1), ships |-> ships]


(***************************************************************************)
(* Registry, rooms and connections (server.js:70, 260-265, 275-283)        *)
(*                                                                         *)
(* A join code is modelled by the integer its six digits spell, a player   *)
(* identifier (a UUID) by the number of the randomUUID call that made it.  *)
(* A message dropped by the rate limiter (line 270) or by JSON.parse       *)
(* (line 272) changes nothing: it is a stuttering step.                    *)
(***************************************************************************)
NumConns == 2

NumCodes == 1

MaxPlayers == 2

MaxMisses == 1

\* the smallest value of code6 (line 76)
FirstCode == 100000

Codes == FirstCode .. (FirstCode + NumCodes - 1)

\* a code no room has; also stands for ws.room = null
NoCode == 0

\* ws.playerId = null, room.turn = null, room.winner = null
NoPlayer == 0

Conns == 1 .. NumConns

\* lines 277-283
NewRoom == [phase |-> "placing", turn |-> NoPlayer, winner |-> NoPlayer,
            order |-> <<>>, players |-> <<>>]

\* a faulty new player that is ready from the start
NewPlayerReady(pid) == [id |-> pid, board |-> emptyBoard, ships |-> <<>>,
                        marks |-> emptyBoard, ready |-> TRUE]

\* lines 297-303
NewPlayer(pid) == [id |-> pid, board |-> emptyBoard, ships |-> <<>>,
                   marks |-> emptyBoard, ready |-> FALSE]

\* lines 261-265; closed tells a connection that has ended from one that has
\* not yet been made
NewConn == [open |-> TRUE, closed |-> FALSE, room |-> NoCode, playerId |-> NoPlayer]

\* Object.keys(room.players): the identifiers in insertion order
Keys(room) == room.order

HasPlayer(room, pid) == pid \in SeqToSet(room.order)

\* lines 82-84
otherPlayerId(room, pid) ==
    LET ids == Keys(room)
        found == {i \in 1 .. Len(ids) : ids[i] # pid}
    IN  IF found = {} THEN NoPlayer
        ELSE ids[CHOOSE i \in found : \A j \in found : i <= j]

\* lines 88-91: the code of the live room ws is bound to, or NoCode
getRoom(ws) ==
    IF conns[ws].room = NoCode THEN NoCode
    ELSE IF conns[ws].room \in DOMAIN rooms THEN conns[ws].room
    ELSE NoCode

\* a faulty projection that hides nothing
maskNothing(board, myMarks, haveMarks) == board

\* lines 108-118
maskOpponentBoard(board, myMarks, haveMarks) ==
    [r \in Idx |-> [c \in Idx |->
        IF haveMarks /\ myMarks[r][c] = 2 THEN board[r][c] ELSE EMPTY]]

\* a faulty summary that also reports where the ships are
ShipSummaryWithCells(ships) ==
    [i \in 1 .. Len(ships) |->
        [id |-> ships[i].id, length |-> ships[i].length, hits |-> ships[i].hits,
         cells |-> ships[i].cells]]

\* lines 140, 147
ShipSummary(ships) ==
    [i \in 1 .. Len(ships) |->
        [id |-> ships[i].id, length |-> ships[i].length, hits |-> ships[i].hits]]

NoView == [present |-> FALSE]

\* lines 120-152
roomStateFor(conn, code, room) ==
    LET meId == conn.playerId
        oppId == otherPlayerId(room, meId)
        haveMe == meId # NoPlayer /\ HasPlayer(room, meId)
        haveOpp == oppId # NoPlayer
    IN  [type |-> "ROOM_STATE",
         code |-> conn.room,
         phase |-> room.phase,
         turn |-> room.turn,
         winner |-> room.winner,
         me |-> IF haveMe
                THEN [present |-> TRUE, id |-> meId,
                      board |-> room.players[meId].board,
                      marks |-> room.players[meId].marks,
                      ships |-> ShipSummary(room.players[meId].ships),
                      ready |-> room.players[meId].ready]
                ELSE NoView,
         opp |-> IF haveOpp
                 THEN [present |-> TRUE, id |-> oppId,
                       board |-> maskOpponentBoard(room.players[oppId].board,
                                    IF haveMe THEN room.players[meId].marks ELSE emptyBoard,
                                    haveMe),
                       marks |-> room.players[oppId].marks,
                       ships |-> ShipSummary(room.players[oppId].ships),
                       ready |-> room.players[oppId].ready]
                 ELSE NoView]

\* lines 157-160: wss.clients.forEach from connection w on
RECURSIVE StatesFrom(_, _, _, _)
StatesFrom(rs, cs, code, w) ==
    IF w > NumConns THEN <<>>
    ELSE (IF cs[w].open /\ cs[w].room = code
          THEN <<[to |-> w, msg |-> roomStateFor(cs[w], code, rs[code])]>>
          ELSE <<>>) \o StatesFrom(rs, cs, code, w + 1)

\* a faulty broadcast that stops after the first connection
broadcastFirst(rs, cs, code) ==
    IF code \notin DOMAIN rs THEN <<>>
    ELSE LET all == StatesFrom(rs, cs, code, 1) IN
         IF all = <<>> THEN <<>> ELSE <<all[1]>>

\* lines 154-161: one ROOM_STATE per open connection bound to the code
broadcastRoom(rs, cs, code) ==
    IF code \notin DOMAIN rs THEN <<>> ELSE StatesFrom(rs, cs, code, 1)

\* lines 85-87
Msg(ws, m) == <<[to |-> ws, msg |-> m]>>

\* a faulty sweep that empties the registry
cleanupEverything(rs, cs) == <<>>

\* lines 252-257: drop every room no open connection is bound to
cleanupRooms(rs, cs) ==
    LET live == {code \in DOMAIN rs : \E w \in Conns : cs[w].open /\ cs[w].room = code}
    IN  [code \in live |-> rs[code]]

\* line 365, and isSunk
isSunk(ship) == Len(ship.hits) = ship.length

\* ~~x: an integer of 32 bits is itself; null, undefined and a string that
\* spells no number are 0
ToInt32(x) == IF x.t = "int" THEN x.v ELSE 0


(***************************************************************************)
(* Inputs of the room machine: the payloads, flags and coordinates that    *)
(* clients send                                                            *)
(***************************************************************************)
\* a valid layout whose identifiers are neither 1..5 nor in scan order
BaseFleet ==
    << [r |-> 0, c |-> 0, len |-> 5, h |-> TRUE,  id |-> 3],
       [r |-> 2, c |-> 0, len |-> 4, h |-> FALSE, id |-> 1],
       [r |-> 3, c |-> 2, len |-> 3, h |-> TRUE,  id |-> 8],
       [r |-> 5, c |-> 6, len |-> 3, h |-> FALSE, id |-> 2],
       [r |-> 7, c |-> 8, len |-> 2, h |-> TRUE,  id |-> 6] >>

\* its mirror image, with the identifiers 1..5
MirrorFleet ==
    [i \in 1 .. Len(BaseFleet) |->
        [r |-> BaseFleet[i].c, c |-> BaseFleet[i].r, len |-> BaseFleet[i].len,
         h |-> ~BaseFleet[i].h, id |-> i]]

PieceCells(p) ==
    {<<p.r + (IF p.h THEN 0 ELSE i), p.c + (IF p.h THEN i ELSE 0)>> : i \in 0 .. (p.len - 1)}

\* write a piece's id into its cells, as the client's placeShip does
Paint(g, p) ==
    [r \in Idx |-> [c \in Idx |-> IF <<r, c>> \in PieceCells(p) THEN p.id ELSE g[r][c]]]

RECURSIVE PaintAll(_, _, _)
PaintAll(g, fleet, i) ==
    IF i > Len(fleet) THEN g ELSE PaintAll(Paint(g, fleet[i]), fleet, i + 1)

MalformedKinds == {"null", "noBoard", "rows9", "shortRow", "string", "negative"}

Malformed(g, kind) ==
    LET good == JBoard(g) IN
    CASE kind = "null" -> JNull
      [] kind = "noBoard" -> JObj(JStr)
      [] kind = "rows9" -> JObj(JArr(SubSeq(good.board.items, 1, SIZE - 1)))
      [] kind = "shortRow" ->
            JObj(JArr([good.board.items EXCEPT ![SIZE] = JArr(SubSeq(@.items, 1, SIZE - 1))]))
      [] kind = "string" ->
            JObj(JArr([good.board.items EXCEPT ![SIZE] = JArr([@.items EXCEPT ![SIZE] = JStr])]))
      [] kind = "negative" ->
            JObj(JArr([good.board.items EXCEPT ![SIZE] = JArr([@.items EXCEPT ![SIZE] = JInt(-1)])]))

BaseGrid == PaintAll(emptyBoard, BaseFleet, 1)

MirrorGrid == PaintAll(emptyBoard, MirrorFleet, 1)

\* the payloads of PLACE_FLEET: two valid layouts, a board of 9 rows, null
RoomPayloads ==
    {JBoard(BaseGrid), JBoard(MirrorGrid), Malformed(BaseGrid, "rows9"), JNull}

\* sanitizeFleet on the payloads above, computed once
SanitizedPayloads == [p \in RoomPayloads |-> sanitizeFleet(p)]

\* sanitizeFleet(payload)
Sanitized(payload) ==
    IF payload \in RoomPayloads THEN SanitizedPayloads[payload] ELSE sanitizeFleet(payload)

\* the values of r or c in a FIRE that end at index k: the index itself and,
\* at the edges, a number out of range or no number at all
RawCoords(k) ==
    {JInt(k)} \cup (IF k = 0 THEN {JInt(-1), JNull} ELSE {})
              \cup (IF k = SIZE - 1 THEN {JInt(SIZE)} ELSE {})

\* the (r, c) of the FIRE messages that end at cell x: one coordinate at a
\* time takes its other spellings
RawShots(x) ==
    {<<r0, JInt(x[2])>> : r0 \in RawCoords(x[1])} \cup {<<JInt(x[1]), c0>> : c0 \in RawCoords(x[2])}

Marked(p) == {x \in Cells : p.marks[x[1]][x[2]] \in {2, 3}}

\* the cells a player aims at.  Players sweep the opponent's board in
\* row-major order: the next unmarked ship cell, the next unmarked water cell
\* (at most MaxMisses misses each), or the first cell they have marked.
Aim(me, opp) ==
    LET fresh == Cells \ Marked(me)
        ship == {x \in fresh : opp.board[x[1]][x[2]] # EMPTY}
        water == {x \in fresh : opp.board[x[1]][x[2]] = EMPTY}
        misses == {x \in Cells : me.marks[x[1]][x[2]] = 3}
    IN  (IF ship = {} THEN {} ELSE {FirstCell(ship)})
        \cup (IF water = {} \/ Cardinality(misses) >= MaxMisses THEN {} ELSE {FirstCell(water)})
        \cup (IF Marked(me) = {} THEN {} ELSE {FirstCell(Marked(me))})

(***************************************************************************)
(* The client's placement test (app.js:194-202).  A call is made with a    *)
(* board, a start cell, a length and a direction; the outcome is what the  *)
(* function returned, or the TypeError it raised.                          *)
(***************************************************************************)
placeVars == <<cpCall, cpRet, client>>

\* the start coordinates tried: every index and one step outside on each side
PlaceCoords == (0 - 1) .. SIZE

\* the lengths tried: those of the ships (app.js:10)
PlaceLens == {2, 3, 4, 5}

\* the boards tried: empty, with two ships of the base layout, with all five
PlaceBoards == {emptyBoard, PaintAll(emptyBoard, SubSeq(BaseFleet, 1, 2), 1), BaseGrid}

RECURSIVE canPlaceFrom(_, _, _, _, _, _)
\* lines 197-201: the loop from step i on.  board[rr] is undefined for a row
\* outside the grid, and reading [cc] of it raises a TypeError; board[rr][cc]
\* is undefined for a column outside the grid, which is not EMPTY.
canPlaceFrom(board, r, c, len, h, i) ==
    IF i >= len THEN "true"
    ELSE LET rr == r + (IF h THEN 0 ELSE i)
             cc == c + (IF h THEN i ELSE 0)
         IN  IF rr \notin Idx THEN "TypeError"
             ELSE IF cc \notin Idx THEN "false"
             ELSE IF board[rr][cc] # EMPTY THEN "false"
             ELSE canPlaceFrom(board, r, c, len, h, i + 1)

\* lines 194-202
canPlace(board, r, c, len, h) ==
    IF h /\ c + len > SIZE THEN "false"
    ELSE IF ~h /\ r + len > SIZE THEN "false"
    ELSE canPlaceFrom(board, r, c, len, h, 0)

PlaceCalls ==
    [board : PlaceBoards, r : PlaceCoords, c : PlaceCoords, len : PlaceLens, h : BOOLEAN]

NoCall == [board |-> emptyBoard, r |-> 0, c |-> 0, len |-> 0, h |-> FALSE]

NoRet == [outcome |-> "none", board |-> emptyBoard]

\* line 10
SHIPS == <<5, 4, 3, 3, 2>>

\* line 187: autoFleet starts from an empty board and no ships
NoFleet == [board |-> emptyBoard, ships |-> <<>>]

\* no call of canPlace is being followed, and no fleet is being placed
InitPlaceIdle ==
    /\ cpCall = NoCall
    /\ cpRet = NoRet
    /\ client = NoFleet

\* the call runs; the function writes nothing, so the board is as it was
CanPlaceCall ==
    /\ cpRet = NoRet
    /\ cpRet' = [outcome |-> canPlace(cpCall.board, cpCall.r, cpCall.c, cpCall.len, cpCall.h),
                 board |-> cpCall.board]
    /\ UNCHANGED <<cpCall, client>>

(***************************************************************************)
(* The message handler (server.js:269-387) and the connection lifecycle    *)
(***************************************************************************)
roomVars == <<rooms, conns, nextPid, sent>>

sanVars == <<canvas, sanStep, sanDev, sanPc, sanPayload, sanClean>>

procVars == <<up>>

rateVars == <<clock, limiter, passed>>

vars == <<rooms, conns, nextPid, sent, canvas, sanStep, sanDev, sanPc, sanPayload, sanClean,
          up, clock, limiter, passed, cpCall, cpRet, client>>

\* a connection not yet made, and one that has ended (no longer in wss.clients)
NoConn == [open |-> FALSE, closed |-> FALSE, room |-> NoCode, playerId |-> NoPlayer]

ClosedConn == [open |-> FALSE, closed |-> TRUE, room |-> NoCode, playerId |-> NoPlayer]

InitRooms ==
    /\ rooms = <<>>
    /\ conns = [w \in Conns |-> NoConn]
    /\ nextPid = 0
    /\ sent = <<>>

InitSanIdle ==
    /\ canvas = emptyBoard
    /\ sanStep = 0
    /\ sanDev = FALSE
    /\ sanPc = "idle"
    /\ sanPayload = JNull
    /\ sanClean = Rejected

\* line 94
RATE_LIMIT_WINDOW_MS == 1000

\* line 95
RATE_LIMIT_MAX == 15

\* the clock advances in steps of TickMs up to MaxTime
TickMs == 500

MaxTime == 1500

Times == {k * TickMs : k \in 0 .. (MaxTime \div TickMs)}

\* lines 96-98: the closure variables of a new limiter made at time t
rateLimiter(t) == [windowStart |-> t, count |-> 0]

\* lines 100-102: the closure variables after a call of ok() at time t
okRate(lim, t) ==
    LET win == IF t - lim.windowStart > RATE_LIMIT_WINDOW_MS THEN rateLimiter(t) ELSE lim
    IN  [win EXCEPT !.count = @ + 1]

\* line 103: what that call returned
okRateResult(lim) == lim.count <= RATE_LIMIT_MAX

\* the process is running
InitProc == up = TRUE

\* the clock starts at 0; a connection's limiter is made when it connects
InitRate ==
    /\ clock = 0
    /\ limiter = [w \in Conns |-> rateLimiter(0)]
    /\ passed = [w \in Conns |-> [t \in Times |-> 0]]

Init == InitRooms /\ InitSanIdle /\ InitProc /\ InitRate /\ InitPlaceIdle

\* lines 260-265: wss.on('connection'); every connection is a new socket
Connect(ws) ==
    /\ ~conns[ws].open /\ ~conns[ws].closed
    /\ conns' = [conns EXCEPT ![ws] = NewConn]
    /\ sent' = <<>>
    /\ UNCHANGED <<rooms, nextPid>>

\* lines 389-391: ws.on('close'); the heartbeat's terminate (line 397) ends here too
Close(ws) ==
    /\ conns[ws].open
    /\ conns' = [conns EXCEPT ![ws] = ClosedConn]
    /\ rooms' = cleanupRooms(rooms, conns')
    /\ sent' = <<>>
    /\ UNCHANGED nextPid

\* a faulty creation that leaves a live room with the same code alone
CreateRoomGuarded(ws, code) ==
    /\ conns[ws].open
    /\ rooms' = [k \in DOMAIN rooms \cup {code} |-> IF k \in DOMAIN rooms THEN rooms[k] ELSE NewRoom]
    /\ sent' = Msg(ws, [type |-> "ROOM_CREATED", code |-> code])
    /\ UNCHANGED <<conns, nextPid>>

\* lines 275-286; code6 may return any code, also a live one
CreateRoom(ws, code) ==
    /\ conns[ws].open
    /\ rooms' = [k \in DOMAIN rooms \cup {code} |-> IF k = code THEN NewRoom ELSE rooms[k]]
    /\ sent' = Msg(ws, [type |-> "ROOM_CREATED", code |-> code])
    /\ UNCHANGED <<conns, nextPid>>

\* a faulty join that puts the new player in place of the others
JoinedRoomAlone(room, pid) ==
    [room EXCEPT !.order = <<pid>>,
                 !.players = [q \in {pid} |-> NewPlayer(pid)]]

\* lines 296-303: the room with a new player
JoinedRoom(room, pid) ==
    [room EXCEPT !.order = Append(@, pid),
                 !.players = [q \in DOMAIN @ \cup {pid} |->
                                IF q = pid THEN NewPlayer(pid) ELSE @[q]]]

\* lines 288-311
JoinRoom(ws, code) ==
    /\ conns[ws].open
    /\ IF code \notin DOMAIN rooms
       THEN /\ sent' = Msg(ws, [type |-> "ERROR", error |-> "NO_SUCH_ROOM"])
            /\ UNCHANGED <<rooms, conns, nextPid>>
       ELSE IF Len(Keys(rooms[code])) >= 2
       THEN /\ sent' = Msg(ws, [type |-> "ERROR", error |-> "ROOM_FULL"])
            /\ UNCHANGED <<rooms, conns, nextPid>>
       ELSE /\ nextPid < MaxPlayers
            /\ nextPid' = nextPid + 1
            /\ rooms' = [rooms EXCEPT ![code] = JoinedRoom(@, nextPid')]
            /\ conns' = [conns EXCEPT ![ws].room = code, ![ws].playerId = nextPid']
            /\ sent' = Msg(ws, [type |-> "JOINED", code |-> code, playerId |-> nextPid'])
                        \o broadcastRoom(rooms', conns', code)

\* lines 321-323: the room after the player's fleet has been stored
PlacedRoom(room, pid, clean, ready) ==
    [room EXCEPT !.players[pid].board = clean.board,
                 !.players[pid].ships = clean.ships,
                 !.players[pid].ready = ready]

\* a faulty test that is content with one ready player out of two
OneReady(room) ==
    LET ids == Keys(room) IN
    Len(ids) = 2 /\ \E i \in 1 .. Len(ids) : room.players[ids[i]].ready

BothReady(room) ==
    LET ids == Keys(room) IN
    Len(ids) = 2 /\ \A i \in 1 .. Len(ids) : room.players[ids[i]].ready

\* a faulty start that always gives the first turn to the first player
StartedRoomFirst(room, pick) ==
    [room EXCEPT !.phase = "battle", !.turn = Keys(room)[1]]

\* lines 328-333: the room after the battle has started; pick is
\* Math.floor(Math.random() * 2)
StartedRoom(room, pick) ==
    [room EXCEPT !.phase = "battle", !.turn = Keys(room)[pick + 1]]

BadFleet == [type |-> "ERROR", error |-> "BAD_FLEET"]

\* a faulty rejection that also takes the player's ready flag back
RejectFleetUnready(ws) ==
    /\ sent' = Msg(ws, BadFleet)
    /\ rooms' = [rooms EXCEPT ![getRoom(ws)].players[conns[ws].playerId].ready = FALSE]

\* lines 317-320: the sanitizer returned {}
RejectFleet(ws) ==
    /\ sent' = Msg(ws, BadFleet)
    /\ UNCHANGED rooms

\* lines 313-336; fleet is msg.payload, flag the truthiness of msg.ready
PlaceFleet(ws, fleet, flag) ==
    /\ conns[ws].open
    /\ UNCHANGED <<conns, nextPid>>
    /\ LET bound == getRoom(ws)
           me == conns[ws].playerId
       IN  IF bound = NoCode THEN sent' = <<>> /\ UNCHANGED rooms
           ELSE IF rooms[bound].phase # "placing" THEN sent' = <<>> /\ UNCHANGED rooms
           ELSE IF ~HasPlayer(rooms[bound], me) THEN sent' = <<>> /\ UNCHANGED rooms
           ELSE
             LET result == Sanitized(fleet) IN
             IF ~result.ok
             THEN RejectFleet(ws)
             ELSE
               LET placed == [rooms EXCEPT ![bound] = PlacedRoom(@, me, result, flag)] IN
               IF BothReady(placed[bound])
               THEN \E pick \in {0, 1} :
                      /\ rooms' = [placed EXCEPT ![bound] = StartedRoom(@, pick)]
                      /\ sent' = broadcastRoom(placed, conns, bound)
                                    \o broadcastRoom(rooms', conns, bound)
               ELSE /\ rooms' = placed
                    /\ sent' = broadcastRoom(placed, conns, bound)

\* a faulty lookup that always answers with the first ship of the fleet
FindFirstShip(ships, cellId) == 1

\* line 359: opp.ships.find(s => s.id === cellId), as an index
FindShip(ships, cellId) ==
    CHOOSE i \in 1 .. Len(ships) :
        ships[i].id = cellId /\ \A j \in 1 .. (i - 1) : ships[j].id # cellId

\* lines 360-362: the ships with the key of (r,c) recorded once
HitShips(ships, cellId, r, c) ==
    LET k == FindShip(ships, cellId)
        key == <<r, c>>
    IN  IF key \in SeqToSet(ships[k].hits) THEN ships
        ELSE [ships EXCEPT ![k].hits = Append(@, key)]

\* a faulty shot that lets the firer keep the turn after a hit
FiredRoomExtraTurn(room, pid, oppId, r, c) ==
    LET cellId == room.players[oppId].board[r][c] IN
    IF cellId = EMPTY
    THEN [room EXCEPT !.players[pid].marks[r][c] = 3, !.turn = oppId]
    ELSE
        LET ships == HitShips(room.players[oppId].ships, cellId, r, c)
            oppAllSunk == \A i \in 1 .. Len(ships) : isSunk(ships[i])
            hit == [room EXCEPT !.players[pid].marks[r][c] = 2,
                                !.players[oppId].ships = ships]
        IN  IF oppAllSunk
            THEN [hit EXCEPT !.phase = "gameover", !.winner = pid]
            ELSE hit

\* a faulty shot that puts the room back into placing after a miss
FiredRoomRestart(room, pid, oppId, r, c) ==
    LET cellId == room.players[oppId].board[r][c] IN
    IF cellId = EMPTY
    THEN [room EXCEPT !.players[pid].marks[r][c] = 3, !.turn = oppId, !.phase = "placing"]
    ELSE
        LET ships == HitShips(room.players[oppId].ships, cellId, r, c)
            oppAllSunk == \A i \in 1 .. Len(ships) : isSunk(ships[i])
            hit == [room EXCEPT !.players[pid].marks[r][c] = 2,
                                !.players[oppId].ships = ships]
        IN  IF oppAllSunk
            THEN [hit EXCEPT !.phase = "gameover", !.winner = pid]
            ELSE [hit EXCEPT !.turn = oppId]

\* a faulty shot that also writes the miss into the opponent's marks
FiredRoomMarksBoth(room, pid, oppId, r, c) ==
    LET cellId == room.players[oppId].board[r][c] IN
    IF cellId = EMPTY
    THEN [room EXCEPT !.players[pid].marks[r][c] = 3, !.players[oppId].marks[r][c] = 3,
                      !.turn = oppId]
    ELSE
        LET ships == HitShips(room.players[oppId].ships, cellId, r, c)
            oppAllSunk == \A i \in 1 .. Len(ships) : isSunk(ships[i])
            hit == [room EXCEPT !.players[pid].marks[r][c] = 2,
                                !.players[oppId].ships = ships]
        IN  IF oppAllSunk
            THEN [hit EXCEPT !.phase = "gameover", !.winner = pid]
            ELSE [hit EXCEPT !.turn = oppId]

\* a faulty shot that lets the firer shoot again after a miss
FiredRoomMissAgain(room, pid, oppId, r, c) ==
    LET cellId == room.players[oppId].board[r][c] IN
    IF cellId = EMPTY
    THEN [room EXCEPT !.players[pid].marks[r][c] = 3]
    ELSE
        LET ships == HitShips(room.players[oppId].ships, cellId, r, c)
            oppAllSunk == \A i \in 1 .. Len(ships) : isSunk(ships[i])
            hit == [room EXCEPT !.players[pid].marks[r][c] = 2,
                                !.players[oppId].ships = ships]
        IN  IF oppAllSunk
            THEN [hit EXCEPT !.phase = "gameover", !.winner = pid]
            ELSE [hit EXCEPT !.turn = oppId]

\* a faulty shot that names the winner at the first hit
FiredRoomEager(room, pid, oppId, r, c) ==
    LET cellId == room.players[oppId].board[r][c] IN
    IF cellId = EMPTY
    THEN [room EXCEPT !.players[pid].marks[r][c] = 3, !.turn = oppId]
    ELSE
        LET ships == HitShips(room.players[oppId].ships, cellId, r, c)
            oppAllSunk == \A i \in 1 .. Len(ships) : isSunk(ships[i])
            hit == [room EXCEPT !.players[pid].marks[r][c] = 2,
                                !.players[oppId].ships = ships,
                                !.winner = pid]
        IN  IF oppAllSunk
            THEN [hit EXCEPT !.phase = "gameover"]
            ELSE [hit EXCEPT !.turn = oppId]

\* a faulty update that passes the turn after a miss without marking the cell
FiredRoomUnmarked(room, pid, oppId, r, c) ==
    LET cellId == room.players[oppId].board[r][c] IN
    IF cellId = EMPTY
    THEN [room EXCEPT !.turn = oppId]
    ELSE
        LET ships == HitShips(room.players[oppId].ships, cellId, r, c)
            oppAllSunk == \A i \in 1 .. Len(ships) : isSunk(ships[i])
            hit == [room EXCEPT !.players[pid].marks[r][c] = 2,
                                !.players[oppId].ships = ships]
        IN  IF oppAllSunk
            THEN [hit EXCEPT !.phase = "gameover", !.winner = pid]
            ELSE [hit EXCEPT !.turn = oppId]

\* lines 353-372: the room after a shot at an unmarked cell
FiredRoom(room, pid, oppId, r, c) ==
    LET cellId == room.players[oppId].board[r][c] IN
    IF cellId = EMPTY
    THEN [room EXCEPT !.players[pid].marks[r][c] = 3, !.turn = oppId]
    ELSE
        LET ships == HitShips(room.players[oppId].ships, cellId, r, c)
            oppAllSunk == \A i \in 1 .. Len(ships) : isSunk(ships[i])
            hit == [room EXCEPT !.players[pid].marks[r][c] = 2,
                                !.players[oppId].ships = ships]
        IN  IF oppAllSunk
            THEN [hit EXCEPT !.phase = "gameover", !.winner = pid]
            ELSE [hit EXCEPT !.turn = oppId]

\* a faulty test that lets a player fire again at a cell marked as a miss
AlreadyHit(marks, r, c) == marks[r][c] = 2

\* line 351: already fired here
AlreadyFired(marks, r, c) == marks[r][c] = 2 \/ marks[r][c] = 3

\* a faulty handler that only refuses to fire while the fleets are placed
FireAfterGameover(ws, r0, c0) ==
    /\ conns[ws].open
    /\ UNCHANGED <<conns, nextPid>>
    /\ LET bound == getRoom(ws)
           me == conns[ws].playerId
           row == clamp(ToInt32(r0), 0, SIZE - 1)
           col == clamp(ToInt32(c0), 0, SIZE - 1)
       IN  IF bound = NoCode THEN sent' = <<>> /\ UNCHANGED rooms
           ELSE IF rooms[bound].phase = "placing" THEN sent' = <<>> /\ UNCHANGED rooms
           ELSE IF rooms[bound].turn # me THEN sent' = <<>> /\ UNCHANGED rooms
           ELSE IF ~HasPlayer(rooms[bound], me) THEN sent' = <<>> /\ UNCHANGED rooms
           ELSE IF otherPlayerId(rooms[bound], me) = NoPlayer THEN sent' = <<>> /\ UNCHANGED rooms
           ELSE
             LET game == rooms[bound]
                 them == otherPlayerId(game, me)
             IN  IF AlreadyFired(game.players[me].marks, row, col)
                 THEN sent' = <<>> /\ UNCHANGED rooms
                 ELSE /\ rooms' = [rooms EXCEPT ![bound] = FiredRoom(@, me, them, row, col)]
                      /\ sent' = broadcastRoom(rooms', conns, bound)

\* lines 338-376
Fire(ws, r0, c0) ==
    /\ conns[ws].open
    /\ UNCHANGED <<conns, nextPid>>
    /\ LET bound == getRoom(ws)
           me == conns[ws].playerId
           row == clamp(ToInt32(r0), 0, SIZE - 1)
           col == clamp(ToInt32(c0), 0, SIZE - 1)
       IN  IF bound = NoCode THEN sent' = <<>> /\ UNCHANGED rooms
           ELSE IF rooms[bound].phase # "battle" THEN sent' = <<>> /\ UNCHANGED rooms
           ELSE IF rooms[bound].turn # me THEN sent' = <<>> /\ UNCHANGED rooms
           ELSE IF ~HasPlayer(rooms[bound], me) THEN sent' = <<>> /\ UNCHANGED rooms
           ELSE IF otherPlayerId(rooms[bound], me) = NoPlayer THEN sent' = <<>> /\ UNCHANGED rooms
           ELSE
             LET game == rooms[bound]
                 them == otherPlayerId(game, me)
             IN  IF AlreadyFired(game.players[me].marks, row, col)
                 THEN sent' = <<>> /\ UNCHANGED rooms
                 ELSE /\ rooms' = [rooms EXCEPT ![bound] = FiredRoom(@, me, them, row, col)]
                      /\ sent' = broadcastRoom(rooms', conns, bound)

\* the cells the connection's player aims at when the shot can count, and
\* one cell when the handler drops every FIRE of this connection
FireTargets(ws) ==
    LET bound == getRoom(ws)
        me == conns[ws].playerId
    IN  IF /\ bound # NoCode
           /\ rooms[bound].phase = "battle"
           /\ rooms[bound].turn = me
           /\ HasPlayer(rooms[bound], me)
           /\ otherPlayerId(rooms[bound], me) # NoPlayer
        THEN Aim(rooms[bound].players[me],
                 rooms[bound].players[otherPlayerId(rooms[bound], me)])
        ELSE {<<1, 1>>}

\* the PLACE_FLEET payloads a connection sends: all of them while the handler
\* can reach the sanitizer, one when it drops every PLACE_FLEET of the connection
FleetInputs(ws) ==
    IF /\ getRoom(ws) # NoCode
       /\ rooms[getRoom(ws)].phase = "placing"
       /\ HasPlayer(rooms[getRoom(ws)], conns[ws].playerId)
    THEN RoomPayloads \X BOOLEAN
    ELSE {<<JNull, FALSE>>}

\* a faulty handler that answers an unbound connection with an error
RequestStateLoud(ws) ==
    /\ conns[ws].open
    /\ UNCHANGED <<rooms, conns, nextPid>>
    /\ LET bound == getRoom(ws) IN
       IF bound = NoCode THEN sent' = Msg(ws, [type |-> "ERROR", error |-> "NO_ROOM"])
       ELSE sent' = Msg(ws, roomStateFor(conns[ws], bound, rooms[bound]))

\* lines 378-382
RequestState(ws) ==
    /\ conns[ws].open
    /\ UNCHANGED <<rooms, conns, nextPid>>
    /\ LET bound == getRoom(ws) IN
       IF bound = NoCode THEN sent' = <<>>
       ELSE sent' = Msg(ws, roomStateFor(conns[ws], bound, rooms[bound]))

Next ==
    \/ \E ws \in Conns : Connect(ws) /\ UNCHANGED <<sanVars, procVars, rateVars, placeVars>>
    \/ \E ws \in Conns : Close(ws) /\ UNCHANGED <<sanVars, procVars, rateVars, placeVars>>
    \/ \E ws \in Conns, code \in Codes : CreateRoom(ws, code) /\ UNCHANGED <<sanVars, procVars, rateVars, placeVars>>
    \/ \E ws \in Conns, code \in Codes \cup {NoCode} : JoinRoom(ws, code) /\ UNCHANGED <<sanVars, procVars, rateVars, placeVars>>
    \/ \E ws \in Conns : \E inp \in FleetInputs(ws) :
            PlaceFleet(ws, inp[1], inp[2]) /\ UNCHANGED <<sanVars, procVars, rateVars, placeVars>>
    \/ \E ws \in Conns : \E x \in FireTargets(ws) : \E raw \in RawShots(x) :
            Fire(ws, raw[1], raw[2]) /\ UNCHANGED <<sanVars, procVars, rateVars, placeVars>>
    \/ \E ws \in Conns : RequestState(ws) /\ UNCHANGED <<sanVars, procVars, rateVars, placeVars>>

Spec == Init /\ [][Next]_vars

\* lines 338-372, a FIRE that counts, by what it does to the registry: an open
\* connection bound to a room in battle, whose player holds the turn and has an
\* opponent, fires at a cell it has not marked
EffectiveFire ==
    \E ws \in Conns :
        /\ conns[ws].open
        /\ getRoom(ws) # NoCode
        /\ rooms[getRoom(ws)].phase = "battle"
        /\ rooms[getRoom(ws)].turn = conns[ws].playerId
        /\ HasPlayer(rooms[getRoom(ws)], conns[ws].playerId)
        /\ otherPlayerId(rooms[getRoom(ws)], conns[ws].playerId) # NoPlayer
        /\ \E x \in Cells :
            /\ ~AlreadyFired(rooms[getRoom(ws)].players[conns[ws].playerId].marks, x[1], x[2])
            /\ rooms' = [rooms EXCEPT ![getRoom(ws)] =
                            FiredRoom(@, conns[ws].playerId,
                                      otherPlayerId(@, conns[ws].playerId), x[1], x[2])]

\* the room machine with players that keep playing: while a turn holder can
\* fire at a cell it has not marked, such a FIRE eventually arrives
SpecLive == Init /\ [][Next]_vars /\ WF_rooms(EffectiveFire)

(***************************************************************************)
(* Submissions for sanitizeFleet.  A client paints the five ships of a     *)
(* base layout in order and may deviate from it once: replace a ship by an *)
(* arbitrary piece, leave a ship out, add a sixth piece, or send a         *)
(* malformed payload.  Later paints overwrite earlier ones.                *)
(***************************************************************************)
MaxDevRow == 3

MaxDevCol == 4

MaxDevId == 4

MaxPieceLen == 6

Pieces ==
    {p \in [r : 0 .. MaxDevRow, c : 0 .. MaxDevCol, len : 1 .. MaxPieceLen,
            h : BOOLEAN, id : 1 .. MaxDevId] :
        IF p.h THEN p.c + p.len <= SIZE ELSE p.r + p.len <= SIZE}

InitSan ==
    /\ canvas = emptyBoard
    /\ sanStep = 0
    /\ sanDev = FALSE
    /\ sanPc = "paint"
    /\ sanPayload = JNull
    /\ sanClean = Rejected
    /\ InitRooms
    /\ InitProc
    /\ InitRate
    /\ InitPlaceIdle

\* paint the next ship of the base layout
SanBase ==
    /\ sanPc = "paint" /\ sanStep < Len(BaseFleet)
    /\ canvas' = Paint(canvas, BaseFleet[sanStep + 1])
    /\ sanStep' = sanStep + 1
    /\ UNCHANGED <<sanDev, sanPc, sanPayload, sanClean>>

\* paint an arbitrary piece in place of the next ship of the base layout
SanReplace ==
    /\ sanPc = "paint" /\ sanStep < Len(BaseFleet) /\ ~sanDev
    /\ \E p \in Pieces : canvas' = Paint(canvas, p)
    /\ sanStep' = sanStep + 1
    /\ sanDev' = TRUE
    /\ UNCHANGED <<sanPc, sanPayload, sanClean>>

\* leave the next ship of the base layout out
SanSkip ==
    /\ sanPc = "paint" /\ sanStep < Len(BaseFleet) /\ ~sanDev
    /\ sanStep' = sanStep + 1
    /\ sanDev' = TRUE
    /\ UNCHANGED <<canvas, sanPc, sanPayload, sanClean>>

\* paint one more piece over the finished layout
SanExtra ==
    /\ sanPc = "paint" /\ sanStep = Len(BaseFleet) /\ ~sanDev
    /\ \E p \in Pieces : canvas' = Paint(canvas, p)
    /\ sanDev' = TRUE
    /\ UNCHANGED <<sanStep, sanPc, sanPayload, sanClean>>

\* submit the finished grid
SanSubmit ==
    /\ sanPc = "paint" /\ sanStep = Len(BaseFleet)
    /\ sanPayload' = JBoard(canvas)
    /\ sanClean' = sanitizeFleet(sanPayload')
    /\ sanPc' = "done"
    /\ UNCHANGED <<canvas, sanStep, sanDev>>

\* submit a malformed payload built from the finished grid
SanSubmitMalformed ==
    /\ sanPc = "paint" /\ sanStep = Len(BaseFleet) /\ ~sanDev
    /\ \E kind \in MalformedKinds : sanPayload' = Malformed(canvas, kind)
    /\ sanClean' = sanitizeFleet(sanPayload')
    /\ sanPc' = "done"
    /\ sanDev' = TRUE
    /\ UNCHANGED <<canvas, sanStep>>

NextSan ==
    \/ SanBase /\ UNCHANGED <<roomVars, procVars, rateVars, placeVars>>
    \/ SanReplace /\ UNCHANGED <<roomVars, procVars, rateVars, placeVars>>
    \/ SanSkip /\ UNCHANGED <<roomVars, procVars, rateVars, placeVars>>
    \/ SanExtra /\ UNCHANGED <<roomVars, procVars, rateVars, placeVars>>
    \/ SanSubmit /\ UNCHANGED <<roomVars, procVars, rateVars, placeVars>>
    \/ SanSubmitMalformed /\ UNCHANGED <<roomVars, procVars, rateVars, placeVars>>

SpecSan == InitSan /\ [][NextSan]_vars

SanAccepted == sanPc = "done" /\ sanClean.ok

(***************************************************************************)
(* Raw inbound frames (server.js:269-387): the text of a frame is parsed   *)
(* and dispatched on msg.type.  A frame is the text as JSON.parse sees it: *)
(* text that is not JSON, a JSON value that is not an object, or an object *)
(* whose fields may be missing or of any type.                             *)
(***************************************************************************)
\* text that JSON.parse rejects
Unparseable == [t |-> "garbage"]

\* a field the object does not have
JUndefined == [t |-> "undefined"]

\* a string holding a room code, with or without blanks around it;
\* NoCode stands for no characters at all
JCode(code, padded) == [t |-> "string", code |-> code, padded |-> padded]

\* an object with the given type and no other field
MsgOf(type) ==
    [t |-> "object", type |-> type, code |-> JUndefined, payload |-> JUndefined,
     ready |-> JUndefined, r |-> JUndefined, c |-> JUndefined]

\* the values a JOIN_ROOM carries as its code
RawCodes ==
    {JUndefined, JNull, JInt(0), JInt(FirstCode), JArr(<<>>),
     JCode(FirstCode, FALSE), JCode(FirstCode, TRUE), JCode(NoCode, TRUE)}

\* the frames a connection sends
Frames ==
    {Unparseable, JNull, JInt(7), JStr, JArr(<<>>), JObj(JStr)}
    \cup {MsgOf("CREATE_ROOM"), MsgOf("REQUEST_STATE"), MsgOf("NOPE"), MsgOf("FIRE")}
    \cup {[MsgOf("JOIN_ROOM") EXCEPT !.code = v] : v \in RawCodes}
    \cup {[MsgOf("PLACE_FLEET") EXCEPT !.payload = v, !.ready = flag] :
            v \in {JUndefined, JBoard(BaseGrid)}, flag \in {JUndefined, JInt(1)}}
    \cup {[MsgOf("FIRE") EXCEPT !.r = JStr, !.c = JInt(SIZE)]}

\* JavaScript truthiness of a value
Falsy(x) ==
    \/ x.t \in {"null", "undefined"}
    \/ x.t = "int" /\ x.v = 0
    \/ x = JCode(NoCode, FALSE)

\* line 274: msg.type; a number, a string or an array has no such property
TypeOf(frame) ==
    IF frame.t = "object" /\ "type" \in DOMAIN frame THEN frame.type ELSE "undefined"

\* line 274 reads a property of null; line 289 calls trim on a value that is
\* neither falsy nor a string.  Neither line is inside a try block.
Throws(frame) ==
    \/ frame = JNull
    \/ /\ TypeOf(frame) = "JOIN_ROOM"
       /\ ~Falsy(frame.code)
       /\ frame.code.t # "string"

\* line 289: (msg.code || '').trim() as a key of the registry
TrimmedCode(x) == IF Falsy(x) THEN NoCode ELSE x.code

\* the handler returns without a change and without a message
Dropped ==
    /\ sent' = <<>>
    /\ UNCHANGED <<rooms, conns, nextPid>>

\* the exception leaves the handler; the file installs no handler for
\* uncaught exceptions, so the process ends, and with it the registry and
\* every connection
Crash ==
    /\ up' = FALSE
    /\ rooms' = <<>>
    /\ conns' = [w \in Conns |-> IF conns[w].open THEN ClosedConn ELSE conns[w]]
    /\ sent' = <<>>
    /\ UNCHANGED nextPid

\* lines 271-386, for a frame the limiter has let through
Receive(ws, frame) ==
    /\ up
    /\ conns[ws].open
    /\ IF frame = Unparseable THEN Dropped /\ UNCHANGED up
       ELSE IF Throws(frame) THEN Crash
       ELSE /\ UNCHANGED up
            /\ CASE TypeOf(frame) = "CREATE_ROOM" -> \E code \in Codes : CreateRoom(ws, code)
                 [] TypeOf(frame) = "JOIN_ROOM" -> JoinRoom(ws, TrimmedCode(frame.code))
                 [] TypeOf(frame) = "PLACE_FLEET" ->
                        PlaceFleet(ws, frame.payload, ~Falsy(frame.ready))
                 [] TypeOf(frame) = "FIRE" -> Fire(ws, frame.r, frame.c)
                 [] TypeOf(frame) = "REQUEST_STATE" -> RequestState(ws)
                 [] OTHER -> Dropped

NextMsg ==
    \/ \E ws \in Conns : up /\ Connect(ws) /\ UNCHANGED <<sanVars, procVars, rateVars, placeVars>>
    \/ \E ws \in Conns : up /\ Close(ws) /\ UNCHANGED <<sanVars, procVars, rateVars, placeVars>>
    \/ \E ws \in Conns, frame \in Frames : Receive(ws, frame) /\ UNCHANGED <<sanVars, rateVars, placeVars>>

SpecMsg == Init /\ [][NextMsg]_vars

\* a call of canPlace is about to be made
InitPlace ==
    /\ cpCall \in PlaceCalls
    /\ cpRet = NoRet
    /\ client = NoFleet
    /\ InitRooms
    /\ InitSanIdle
    /\ InitProc
    /\ InitRate

NextPlace == CanPlaceCall /\ UNCHANGED <<roomVars, sanVars, procVars, rateVars>>

SpecPlace == InitPlace /\ [][NextPlace]_vars

(***************************************************************************)
(* A client places its fleet and submits it (app.js:177-207).  The ships   *)
(* of SHIPS are placed in order: placeRandomShip draws a start cell and a  *)
(* direction, and places the ship there if canPlace allows it.  When the   *)
(* five ships are placed the board goes to the server in a PLACE_FLEET,    *)
(* where sanitizeFleet reads it.                                           *)
(***************************************************************************)
\* the last row and the last column the draws of line 190 take here
FarRow == 6

FarCol == 1

\* the rows and the columns drawn, a few of 0 .. SIZE - 1
TryRows == {0, 1, FarRow}

TryCols == {0, FarCol}

\* a faulty placeShip that counts the ships from 0
placeShipFromZero(fleet, r, c, len, h) ==
    LET id == Len(fleet.ships)
        cells == [i \in 1 .. len |->
                    <<r + (IF h THEN 0 ELSE i - 1), c + (IF h THEN i - 1 ELSE 0)>>]
    IN  [board |-> [rr \in Idx |-> [cc \in Idx |->
                        IF <<rr, cc>> \in SeqToSet(cells) THEN id ELSE fleet.board[rr][cc]]],
         ships |-> Append(fleet.ships, [id |-> id, length |-> len, cells |-> cells])]

\* lines 203-207: the board and the ships after placeShip
placeShip(fleet, r, c, len, h) ==
    LET id == Len(fleet.ships) + 1
        cells == [i \in 1 .. len |->
                    <<r + (IF h THEN 0 ELSE i - 1), c + (IF h THEN i - 1 ELSE 0)>>]
    IN  [board |-> [rr \in Idx |-> [cc \in Idx |->
                        IF <<rr, cc>> \in SeqToSet(cells) THEN id ELSE fleet.board[rr][cc]]],
         ships |-> Append(fleet.ships, [id |-> id, length |-> len, cells |-> cells])]

\* lines 189-192: one round of placeRandomShip's loop, for the next ship of
\* SHIPS, with the draws h, r and c
PlaceRandomShip(r, c, h) ==
    /\ sanPc = "idle"
    /\ Len(client.ships) < Len(SHIPS)
    /\ LET len == SHIPS[Len(client.ships) + 1] IN
       client' = IF canPlace(client.board, r, c, len, h) = "true"
                 THEN placeShip(client, r, c, len, h)
                 ELSE client
    /\ UNCHANGED <<cpCall, cpRet>>

\* lines 177-182 and server.js:318: the five ships are placed, the client
\* sends its board, and the server's sanitizeFleet reads the payload
SubmitFleet ==
    /\ sanPc = "idle"
    /\ Len(client.ships) = Len(SHIPS)
    /\ sanPayload' = JBoard(client.board)
    /\ sanClean' = sanitizeFleet(sanPayload')
    /\ sanPc' = "done"
    /\ UNCHANGED <<canvas, sanStep, sanDev>>

NextFleet ==
    \/ \E r \in TryRows, c \in TryCols, h \in BOOLEAN :
            PlaceRandomShip(r, c, h) /\ UNCHANGED <<roomVars, sanVars, procVars, rateVars>>
    \/ SubmitFleet /\ UNCHANGED <<roomVars, procVars, rateVars, placeVars>>

SpecFleet == Init /\ [][NextFleet]_vars

(***************************************************************************)
(* The rate limiter in front of the handler (server.js:94-105, 270).  The  *)
(* limiters of two connections share nothing, so one connection is         *)
(* followed: it connects at some time and sends frames as the clock        *)
(* advances.                                                               *)
(***************************************************************************)
NumRateConns == 1

RateConns == 1 .. NumRateConns

\* how many dropped frames are followed in one window
MaxOver == 1

\* the frames of the connection: both are answered when they get through,
\* and CREATE_ROOM changes the registry
RateFrames == {MsgOf("CREATE_ROOM"), MsgOf("REQUEST_STATE")}

\* the clock advances
Tick ==
    /\ clock < MaxTime
    /\ clock' = clock + TickMs
    /\ UNCHANGED <<limiter, passed>>

\* lines 260-265 with the limiter of line 264
ConnectAt(ws) ==
    /\ Connect(ws)
    /\ limiter' = [limiter EXCEPT ![ws] = rateLimiter(clock)]
    /\ UNCHANGED <<clock, passed>>

\* lines 269-387: the rate check of line 270, then the handler
OnMessage(ws, frame) ==
    /\ up
    /\ conns[ws].open
    /\ okRate(limiter[ws], clock).count <= RATE_LIMIT_MAX + MaxOver
    /\ limiter' = [limiter EXCEPT ![ws] = okRate(@, clock)]
    /\ UNCHANGED clock
    /\ IF okRateResult(limiter'[ws])
       THEN /\ passed' = [passed EXCEPT ![ws][clock] = @ + 1]
            /\ Receive(ws, frame)
       ELSE /\ Dropped
            /\ UNCHANGED <<up, passed>>

NextRate ==
    \/ Tick /\ UNCHANGED <<roomVars, sanVars, procVars, placeVars>>
    \/ \E ws \in RateConns : ConnectAt(ws) /\ UNCHANGED <<sanVars, procVars, placeVars>>
    \/ \E ws \in RateConns : Close(ws) /\ UNCHANGED <<sanVars, procVars, rateVars, placeVars>>
    \/ \E ws \in RateConns, frame \in RateFrames : OnMessage(ws, frame) /\ UNCHANGED <<sanVars, placeVars>>

SpecRate == Init /\ [][NextRate]_vars


(***************************************************************************)
(* Vocabulary of the sanitizer claims: properties of a submitted grid and  *)
(* of a returned fleet, stated without the sanitizer's own scan.           *)
(***************************************************************************)
\* the submission was a well-formed SIZE x SIZE grid of non-negative integers
SanGridSubmitted == sanPc = "done" /\ sanPayload = JBoard(canvas)

Occupied(g) == {x \in Cells : g[x[1]][x[2]] # EMPTY}

IdsOf(g) == {g[x[1]][x[2]] : x \in Occupied(g)}

CellsOf(g, d) == {x \in Cells : g[x[1]][x[2]] = d}

SetMin(S) == CHOOSE m \in S : \A n \in S : m <= n

SetMax(S) == CHOOSE m \in S : \A n \in S : m >= n

\* S is one straight contiguous horizontal or vertical line of cells
IsStraightLine(S) ==
    /\ S # {}
    /\ LET rows == {x[1] : x \in S}
           cols == {x[2] : x \in S}
       IN  \/ Cardinality(rows) = 1 /\ cols = SetMin(cols) .. SetMax(cols)
           \/ Cardinality(cols) = 1 /\ rows = SetMin(rows) .. SetMax(rows)

\* the sizes n[k], k in K, are the fleet's lengths: one 5, one 4, two 3, one 2
IsFleetLengths(K, n) ==
    /\ Cardinality(K) = 5
    /\ Cardinality({k \in K : n[k] = 5}) = 1
    /\ Cardinality({k \in K : n[k] = 4}) = 1
    /\ Cardinality({k \in K : n[k] = 3}) = 2
    /\ Cardinality({k \in K : n[k] = 2}) = 1

\* five straight ships of lengths {5,4,3,3,2}, each with an identifier of its own
ValidDistinct(g) ==
    /\ \A d \in IdsOf(g) : IsStraightLine(CellsOf(g, d))
    /\ IsFleetLengths(IdsOf(g), [d \in IdsOf(g) |-> Cardinality(CellsOf(g, d))])

SameId(g, x, y) == inb(y[1], y[2]) /\ g[y[1]][y[2]] = g[x[1]][x[2]]

\* an occupied cell with a same-id neighbour in its row and one in its column:
\* exactly the grids in which some identifier forms a connected shape that is
\* not a straight line (an L, a T, a block, a cross)
BendCells(g) ==
    {x \in Occupied(g) :
        /\ SameId(g, x, <<x[1], x[2] - 1>>) \/ SameId(g, x, <<x[1], x[2] + 1>>)
        /\ SameId(g, x, <<x[1] - 1, x[2]>>) \/ SameId(g, x, <<x[1] + 1, x[2]>>)}

\* the first cell (leftmost or topmost) of each straight same-id segment
Heads(g) ==
    {x \in Occupied(g) :
        ~SameId(g, x, <<x[1], x[2] - 1>>) /\ ~SameId(g, x, <<x[1] - 1, x[2]>>)}

\* the number of same-id cells in a row from x rightwards, or downwards
RightLen(g, x) ==
    SetMax({n \in 1 .. SIZE : \A i \in 0 .. (n - 1) : SameId(g, x, <<x[1], x[2] + i>>)})

DownLen(g, x) ==
    SetMax({n \in 1 .. SIZE : \A i \in 0 .. (n - 1) : SameId(g, x, <<x[1] + i, x[2]>>)})

\* the length of the segment that starts at head x, in a grid without bends
SegLen(g, x) == Max2(RightLen(g, x), DownLen(g, x))

\* the cells orthogonally connected to x through cells of the same id
RECURSIVE Grow(_, _)
Grow(g, S) ==
    LET T == S \cup {y \in Cells : \E x \in S : y \in Nbrs(x[1], x[2]) /\ SameId(g, x, y)}
    IN  IF T = S THEN S ELSE Grow(g, T)

\* some identifier appears in two or more runs that are not connected
DuplicateIdRuns(g) ==
    \E x \in Heads(g) : Grow(g, {x}) # CellsOf(g, g[x[1]][x[2]])

Diagonal(x) ==
    {<<x[1] - 1, x[2] - 1>>, <<x[1] - 1, x[2] + 1>>, <<x[1] + 1, x[2] - 1>>, <<x[1] + 1, x[2] + 1>>}

ShipCells(ships, i) == SeqToSet(ships[i].cells)

\* two different ships of the fleet have diagonally adjacent cells
CornerTouch(ships) ==
    \E i, j \in 1 .. Len(ships) :
        /\ i # j
        /\ \E x \in ShipCells(ships, i) : Diagonal(x) \cap ShipCells(ships, j) # {}

\* cells is a straight in-bounds run listed in walking order
IsRunSeq(cells) ==
    /\ Len(cells) >= 1
    /\ \A k \in 1 .. Len(cells) : cells[k] \in Cells
    /\ \/ \A k \in 1 .. Len(cells) : cells[k] = <<cells[1][1], cells[1][2] + k - 1>>
       \/ \A k \in 1 .. Len(cells) : cells[k] = <<cells[1][1] + k - 1, cells[1][2]>>

\* a {board, ships} pair that is a valid canonical fleet
CanonicalFleet(res) ==
    /\ DOMAIN res = {"ok", "board", "ships"}
    /\ Len(res.ships) = 5
    /\ {res.ships[i].id : i \in 1 .. 5} = 1 .. 5
    /\ IsFleetLengths(1 .. 5, [i \in 1 .. 5 |-> res.ships[i].length])
    /\ \A i \in 1 .. 5 :
        /\ Len(res.ships[i].cells) = res.ships[i].length
        /\ IsRunSeq(res.ships[i].cells)
        /\ res.ships[i].hits = <<>>
    /\ \A i, j \in 1 .. 5 : i # j => ShipCells(res.ships, i) \cap ShipCells(res.ships, j) = {}
    /\ \A x \in Cells :
        /\ \A i \in 1 .. 5 : x \in ShipCells(res.ships, i) => res.board[x[1]][x[2]] = res.ships[i].id
        /\ (\A i \in 1 .. 5 : x \notin ShipCells(res.ships, i)) => res.board[x[1]][x[2]] = EMPTY

(***************************************************************************)
(* Claims about sanitizeFleet, checked under SpecSan                       *)
(***************************************************************************)

\* C4: for every payload, sanitizeFleet returns either the empty result or a
\* valid canonical fleet (5 ships, ids 1..5, lengths {5,4,3,3,2}, straight
\* in-bounds disjoint runs, no hits, board consistent with the ships); never
\* a partial result.
C4_EmptyOrCanonical ==
    sanPc = "done" => (sanClean = Rejected \/ (sanClean.ok /\ CanonicalFleet(sanClean)))

\* C4 witness: a deviating submission that the sanitizer accepted
C4_Witness == sanPc = "done" /\ sanDev /\ sanClean.ok /\ CanonicalFleet(sanClean)


\* C5: every submission of five straight, pairwise-disjoint ships of lengths
\* {5,4,3,3,2}, each with its own positive identifier (not necessarily 1..5),
\* is accepted; the returned ids are exactly 1..5, the occupied cells are the
\* submitted ones, each board cell holds the id of the ship listing it, and the
\* new ids follow the ascending order of the submitted ids.
C5_ValidAccepted ==
    (SanGridSubmitted /\ ValidDistinct(canvas)) =>
        /\ sanClean.ok
        /\ {sanClean.ships[i].id : i \in 1 .. Len(sanClean.ships)} = 1 .. 5
        /\ Occupied(sanClean.board) = Occupied(canvas)
        /\ \A i \in 1 .. Len(sanClean.ships) : \A x \in ShipCells(sanClean.ships, i) :
                sanClean.board[x[1]][x[2]] = sanClean.ships[i].id
        /\ \A x \in Occupied(canvas) : \E i \in 1 .. Len(sanClean.ships) :
                x \in ShipCells(sanClean.ships, i)
        /\ \A x, y \in Occupied(canvas) :
                canvas[x[1]][x[2]] < canvas[y[1]][y[2]]
                    <=> sanClean.board[x[1]][x[2]] < sanClean.board[y[1]][y[2]]

\* C5 witness: an accepted valid submission whose identifiers are not 1..5
C5_Witness ==
    /\ SanGridSubmitted /\ ValidDistinct(canvas) /\ sanClean.ok
    /\ IdsOf(canvas) # 1 .. 5
    /\ \E x, y \in Heads(canvas) :
            /\ x[1] * SIZE + x[2] < y[1] * SIZE + y[2]
            /\ canvas[x[1]][x[2]] > canvas[y[1]][y[2]]

\* C6 as claimed: every submission in which one identifier appears in two or
\* more disjoint runs is rejected, even when the run lengths are {5,4,3,3,2}.
C6_DuplicateIdRejected ==
    (SanGridSubmitted /\ DuplicateIdRuns(canvas)) => sanClean = Rejected

\* C6 as amended: the sanitizer never compares identifiers across runs.  A
\* submission in which one identifier appears in two or more disjoint runs
\* is accepted exactly when no run bends or branches and the run lengths are
\* {5,4,3,3,2}; each run then becomes a ship with an id of its own.
C6_DuplicateIdByGeometry ==
    (SanGridSubmitted /\ DuplicateIdRuns(canvas)) =>
        /\ sanClean.ok <=>
            /\ BendCells(canvas) = {}
            /\ IsFleetLengths(Heads(canvas), [x \in Heads(canvas) |-> SegLen(canvas, x)])
        /\ sanClean.ok =>
            /\ Cardinality({sanClean.ships[i].id : i \in 1 .. Len(sanClean.ships)}) = 5
            /\ \A i \in 1 .. Len(sanClean.ships) :
                    sanClean.ships[i].cells[1] \in Heads(canvas)

\* C6 witness: an accepted submission with one identifier on two disjoint runs
C6_Witness == SanGridSubmitted /\ DuplicateIdRuns(canvas) /\ sanClean.ok

\* C7 as claimed: no accepted fleet contains two ships that touch at a corner.
C7_NoCornerTouchAccepted ==
    (sanPc = "done" /\ sanClean.ok) => ~CornerTouch(sanClean.ships)

\* C7 as amended: the sanitizer rejects overlapping ships (an accepted grid has
\* all 17 cells of the fleet), diagonal ships (every occupied cell of an
\* accepted grid has an orthogonal neighbour of its id) and wrong lengths
\* (every accepted ship has a length of the fleet), but not ships that touch
\* at corners: a valid layout is accepted whether or not its ships touch.
C7_AdversarialExceptCorners ==
    SanGridSubmitted =>
        /\ sanClean.ok =>
            /\ Cardinality(Occupied(canvas)) = 17
            /\ \A x \in Occupied(canvas) :
                    \E y \in Nbrs(x[1], x[2]) : SameId(canvas, x, y)
            /\ \A x \in Heads(canvas) : SegLen(canvas, x) \in SeqToSet(WantedLengths)
        /\ (ValidDistinct(canvas)
                /\ \E x, y \in Occupied(canvas) :
                        y \in Diagonal(x) /\ ~SameId(canvas, x, y)) => sanClean.ok

\* C7 witness: an accepted fleet in which two ships touch at a corner only
C7_Witness ==
    /\ SanGridSubmitted /\ sanClean.ok /\ CornerTouch(sanClean.ships)
    /\ \A x \in Occupied(canvas) : \A y \in Nbrs(x[1], x[2]) :
            inb(y[1], y[2]) => (canvas[y[1]][y[2]] = EMPTY \/ SameId(canvas, x, y))

\* C8: every submission in which some identifier's cells form a non-straight
\* orthogonally connected shape (L, T, any branch) is rejected, whichever arm
\* the scan walks first.
C8_BendRejected ==
    (SanGridSubmitted /\ BendCells(canvas) # {}) => sanClean = Rejected

\* C8 witness: a rejected T-shape whose stem hangs below the middle of a
\* horizontal run, so the branch is found on the run walked first
C8_Witness ==
    /\ SanGridSubmitted /\ sanClean = Rejected
    /\ \E x \in BendCells(canvas) :
            /\ SameId(canvas, x, <<x[1], x[2] - 1>>)
            /\ SameId(canvas, x, <<x[1], x[2] + 1>>)
            /\ SameId(canvas, x, <<x[1] + 1, x[2]>>)

\* C9: a submission is accepted only if its runs are exactly five with
\* lengths {5,4,3,3,2}: a run of length 1 or 6 (or any other length), fewer
\* or more than five runs, or a wrong multiplicity is rejected.
C9_OnlyFleetLengths ==
    (SanGridSubmitted /\ sanClean.ok) =>
        IsFleetLengths(Heads(canvas), [x \in Heads(canvas) |-> SegLen(canvas, x)])

\* C9 witness: a straight-runs-only submission rejected for its lengths alone,
\* with five runs of which one has length 6
C9_Witness ==
    /\ SanGridSubmitted /\ sanClean = Rejected
    /\ BendCells(canvas) = {}
    /\ Cardinality(Heads(canvas)) = 5
    /\ \E x \in Heads(canvas) : SegLen(canvas, x) = 6

(***************************************************************************)
(* Claims about the room state machine, checked under Spec                 *)
(***************************************************************************)

\* C1 as claimed: in every reachable state of every room, turn is set if and
\* only if the phase is battle; it is null in placing and in gameover.
C1_TurnIffBattle ==
    \A code \in DOMAIN rooms :
        (rooms[code].turn # NoPlayer) <=> (rooms[code].phase = "battle")

\* ws is the turn holder of a battle against an opponent
TurnHolder(ws) ==
    /\ conns[ws].open
    /\ getRoom(ws) # NoCode
    /\ rooms[getRoom(ws)].phase = "battle"
    /\ rooms[getRoom(ws)].turn = conns[ws].playerId
    /\ HasPlayer(rooms[getRoom(ws)], conns[ws].playerId)
    /\ otherPlayerId(rooms[getRoom(ws)], conns[ws].playerId) # NoPlayer

Opponent(ws) ==
    rooms[getRoom(ws)].players[otherPlayerId(rooms[getRoom(ws)], conns[ws].playerId)]

\* how many hits player p's ships can still take
HitsLeft(p) ==
    Cardinality(UNION {{<<i, k>> : k \in (Len(p.ships[i].hits) + 1) .. p.ships[i].length} :
                            i \in 1 .. Len(p.ships)})

\* the turn holder behind ws fires at the unmarked ship cell (r,c) and that
\* hit makes the hit count of every ship of the opponent equal to its length
WinningShot(ws, r, c) ==
    /\ TurnHolder(ws)
    /\ rooms[getRoom(ws)].players[conns[ws].playerId].marks[r][c] \notin {2, 3}
    /\ Opponent(ws).board[r][c] # EMPTY
    /\ \A i \in 1 .. Len(Opponent(ws).ships) :
            LET ship == Opponent(ws).ships[i] IN
            Len(ship.hits)
                + (IF ship.id = Opponent(ws).board[r][c] /\ <<r, c>> \notin SeqToSet(ship.hits)
                   THEN 1 ELSE 0)
            = ship.length

\* C2 as claimed: when the turn holder's FIRE hits an unmarked cell and that
\* hit sinks the opponent's last ship, the resulting room has phase gameover,
\* the firing player as winner, and turn cleared.  (A winning shot exists only
\* when the opponent can take at most one more hit; the cells are looked at in
\* those states only.)
C2_WinClearsTurn ==
    [][\A ws \in Conns :
            (TurnHolder(ws) /\ HitsLeft(Opponent(ws)) <= 1) =>
                \A r, c \in Idx :
                    (WinningShot(ws, r, c) /\ Fire(ws, JInt(r), JInt(c))) =>
                        LET after == rooms'[getRoom(ws)] IN
                        /\ after.phase = "gameover"
                        /\ after.winner = conns[ws].playerId
                        /\ after.turn = NoPlayer]_vars

\* C3: in every reachable state of every room, winner is set if and only if
\* the phase is gameover, and when set it is one of the room's two players.
C3_WinnerIffGameover ==
    \A code \in DOMAIN rooms :
        /\ (rooms[code].winner # NoPlayer) <=> (rooms[code].phase = "gameover")
        /\ rooms[code].winner # NoPlayer =>
                /\ HasPlayer(rooms[code], rooms[code].winner)
                /\ Len(Keys(rooms[code])) = 2

\* C3 witness: a room whose game is over and has a winner
C3_Witness ==
    \E code \in DOMAIN rooms :
        rooms[code].phase = "gameover" /\ rooms[code].winner # NoPlayer

\* ws is a player of a room in phase placing and the sanitizer rejects payload
RejectedPlacement(ws, payload) ==
    /\ conns[ws].open
    /\ getRoom(ws) # NoCode
    /\ rooms[getRoom(ws)].phase = "placing"
    /\ HasPlayer(rooms[getRoom(ws)], conns[ws].playerId)
    /\ ~Sanitized(payload).ok

\* C10: a PLACE_FLEET in phase placing whose payload the sanitizer rejects
\* sends ERROR BAD_FLEET to the submitting connection and nothing else, and
\* leaves the room unchanged: the player's board, fleet and ready flag, the
\* phase, turn and winner, and the other player.
C10_RejectedLeavesRoom ==
    [][\A ws \in Conns : \A payload \in RoomPayloads : \A ready \in BOOLEAN :
            (RejectedPlacement(ws, payload) /\ PlaceFleet(ws, payload, ready)) =>
                /\ sent' = Msg(ws, BadFleet)
                /\ rooms' = rooms
                /\ conns' = conns]_vars

\* C10 witness: BAD_FLEET has just been sent to a player who had placed a
\* fleet and was ready, in a room of two players still in phase placing
C10_Witness ==
    \E ws \in Conns :
        /\ sent = Msg(ws, BadFleet)
        /\ getRoom(ws) # NoCode
        /\ rooms[getRoom(ws)].phase = "placing"
        /\ Len(Keys(rooms[getRoom(ws)])) = 2
        /\ HasPlayer(rooms[getRoom(ws)], conns[ws].playerId)
        /\ rooms[getRoom(ws)].players[conns[ws].playerId].ships # <<>>
        /\ rooms[getRoom(ws)].players[conns[ws].playerId].ready

\* ws is a player of a room in phase placing and the sanitizer accepts payload
AcceptedPlacement(ws, payload) ==
    /\ conns[ws].open
    /\ getRoom(ws) # NoCode
    /\ rooms[getRoom(ws)].phase = "placing"
    /\ HasPlayer(rooms[getRoom(ws)], conns[ws].playerId)
    /\ Sanitized(payload).ok

\* the room of ws has two players and the one that is not ws's is ready
OtherIsReady(ws) ==
    /\ Len(Keys(rooms[getRoom(ws)])) = 2
    /\ rooms[getRoom(ws)].players[otherPlayerId(rooms[getRoom(ws)], conns[ws].playerId)].ready

\* C11: a room moves from placing to battle exactly when an accepted
\* PLACE_FLEET leaves it with two players that are both ready; at that step
\* turn becomes one of the two players, and either of them can be chosen.  A
\* room with fewer than two players or with a player that is not ready stays
\* in placing.
C11_BattleStartsWhenBothReady ==
    /\ [][
          /\ \A code \in DOMAIN rooms \cap DOMAIN rooms' :
                (rooms[code].phase = "placing" /\ rooms'[code].phase = "battle") =>
                    /\ \E ws \in Conns : \E payload \in RoomPayloads : \E ready \in BOOLEAN :
                            /\ getRoom(ws) = code
                            /\ AcceptedPlacement(ws, payload)
                            /\ PlaceFleet(ws, payload, ready)
                    /\ BothReady(rooms'[code])
                    /\ rooms'[code].turn \in SeqToSet(Keys(rooms'[code]))
          /\ \A code \in DOMAIN rooms' :
                rooms'[code].phase = "placing" => ~BothReady(rooms'[code])
       ]_vars
    /\ [](\A ws \in Conns : \A payload \in RoomPayloads :
            (AcceptedPlacement(ws, payload) /\ OtherIsReady(ws)) =>
                \A id \in SeqToSet(Keys(rooms[getRoom(ws)])) :
                    ENABLED (/\ PlaceFleet(ws, payload, TRUE)
                             /\ rooms'[getRoom(ws)].phase = "battle"
                             /\ rooms'[getRoom(ws)].turn = id
                             /\ UNCHANGED <<sanVars, procVars, rateVars, placeVars>>))

\* C11 witness: a battle has just started and the second player of the room
\* has the first turn
C11_Witness ==
    \E code \in DOMAIN rooms :
        /\ rooms[code].phase = "battle"
        /\ rooms[code].turn = Keys(rooms[code])[2]
        /\ \A pid \in SeqToSet(Keys(rooms[code])) : rooms[code].players[pid].marks = emptyBoard
        /\ Len(sent) = 4
        /\ sent[1].msg.phase = "placing"
        /\ sent[4].msg.phase = "battle"

\* the marks of the player behind ws
MarksOf(ws) == rooms[getRoom(ws)].players[conns[ws].playerId].marks

\* after the step, the room of ws still holds the player behind ws
StillPlayer(ws) ==
    /\ getRoom(ws) \in DOMAIN rooms'
    /\ HasPlayer(rooms'[getRoom(ws)], conns[ws].playerId)

\* the ship of player p that owns cell x of p's board
OwnerOf(p, x) ==
    CHOOSE i \in 1 .. Len(p.ships) : p.ships[i].id = p.board[x[1]][x[2]]

\* cell x of a marks grid holds a hit (2) or a miss (3)
IsMarked(marks, x) == marks[x[1]][x[2]] \in {2, 3}

\* C12: in phase battle, a FIRE by the turn holder at a cell it has not
\* marked (coordinates clamped into 0..9) that does not win the game: on an
\* empty cell of the opponent's board it sets the firer's mark to 3; on an
\* occupied cell it sets the mark to 2 and records the coordinate in the
\* owning ship's hits; in both cases the turn passes to the opponent, never
\* staying with the firer.  (A FIRE that counts marks its cell, so only the
\* cells marked by the step are looked at.)
C12_ShotMarksAndPassesTurn ==
    [][\A ws \in Conns : (TurnHolder(ws) /\ StillPlayer(ws)) =>
            LET me == conns[ws].playerId
                them == otherPlayerId(rooms[getRoom(ws)], me)
                after == rooms'[getRoom(ws)]
                before == MarksOf(ws)
            IN  after.players[me].marks # before =>
                \A x \in Cells :
                    (/\ ~IsMarked(before, x)
                     /\ IsMarked(after.players[me].marks, x)
                     /\ ~WinningShot(ws, x[1], x[2])) =>
                        \A raw \in RawShots(x) : Fire(ws, raw[1], raw[2]) =>
                            /\ after.phase = "battle"
                            /\ after.turn = them /\ after.turn # me
                            /\ after.winner = NoPlayer
                            /\ IF Opponent(ws).board[x[1]][x[2]] = EMPTY
                               THEN /\ after.players[me].marks[x[1]][x[2]] = 3
                                    /\ after.players[them].ships = Opponent(ws).ships
                               ELSE /\ after.players[me].marks[x[1]][x[2]] = 2
                                    /\ x \in SeqToSet(
                                          after.players[them].ships[OwnerOf(Opponent(ws), x)].hits)
                                    /\ \A i \in 1 .. Len(Opponent(ws).ships) :
                                          i # OwnerOf(Opponent(ws), x) =>
                                            after.players[them].ships[i] = Opponent(ws).ships[i]]_vars

\* C12 witness: in a battle, a player with a hit and a miss on its marks has
\* just fired, the turn is with the opponent and both connections were told
C12_Witness ==
    \E code \in DOMAIN rooms : \E pid \in SeqToSet(Keys(rooms[code])) :
        /\ rooms[code].phase = "battle"
        /\ Len(Keys(rooms[code])) = 2
        /\ rooms[code].turn = otherPlayerId(rooms[code], pid)
        /\ \E x, y \in Cells :
                /\ rooms[code].players[pid].marks[x[1]][x[2]] = 2
                /\ rooms[code].players[pid].marks[y[1]][y[2]] = 3
        /\ Len(sent) = 2
        /\ sent[1].msg.turn = rooms[code].turn

\* C13: a FIRE by the turn holder at a cell the firer has already marked (2
\* or 3) is a silent no-op: marks, hit sets, turn, phase and winner (the
\* whole registry) are unchanged and no message is sent.  (Stated as: a
\* step is silent and changes nothing, or it is no such FIRE.)
C13_RefireIsNoOp ==
    [][\/ rooms' = rooms /\ conns' = conns /\ sent' = <<>>
       \/ \A ws \in Conns : TurnHolder(ws) =>
            LET before == MarksOf(ws) IN
            \A x \in Cells : IsMarked(before, x) =>
                \A raw \in RawShots(x) : ~Fire(ws, raw[1], raw[2])]_vars

\* C13 witness: nothing was sent in the last step of a battle in which the
\* turn holder has marked a hit and a miss
C13_Witness ==
    \E ws \in Conns :
        /\ TurnHolder(ws)
        /\ sent = <<>>
        /\ \E x, y \in Cells :
                /\ rooms[getRoom(ws)].players[conns[ws].playerId].marks[x[1]][x[2]] = 2
                /\ rooms[getRoom(ws)].players[conns[ws].playerId].marks[y[1]][y[2]] = 3

\* values of r and c in a FIRE whose coordinates are never read
RawSamples == {JNull, JInt(-1), JInt(0), JInt(SIZE - 1), JInt(SIZE)}

\* ws is not bound to a live room
Unbound(ws) == conns[ws].open /\ getRoom(ws) = NoCode

\* C14: out-of-phase and out-of-turn actions are dropped silently: a FIRE
\* while the phase is not battle, a FIRE from a connection whose player is not
\* the turn holder, a PLACE_FLEET while the phase is not placing, and any
\* PLACE_FLEET, FIRE or REQUEST_STATE from a connection not bound to a live
\* room leave every room unchanged and send no message.  (Stated as: a step
\* is silent and changes nothing, or it is none of these actions.)
C14_DroppedSilently ==
    [][\/ rooms' = rooms /\ conns' = conns /\ sent' = <<>>
       \/ \A ws \in Conns : conns[ws].open =>
            /\ (\/ Unbound(ws)
                \/ rooms[getRoom(ws)].phase # "battle"
                \/ rooms[getRoom(ws)].turn # conns[ws].playerId) =>
                    \A r0 \in RawSamples : \A c0 \in RawSamples : ~Fire(ws, r0, c0)
            /\ (Unbound(ws) \/ rooms[getRoom(ws)].phase # "placing") =>
                    \A payload \in RoomPayloads : \A ready \in BOOLEAN :
                        ~PlaceFleet(ws, payload, ready)
            /\ Unbound(ws) => ~RequestState(ws)]_vars

\* C14 witness: nothing was sent in the last step while one connection is open
\* and unbound, and the other is a player of a room still in phase placing
C14_Witness ==
    /\ sent = <<>>
    /\ \E ws, other \in Conns :
            /\ Unbound(ws)
            /\ conns[other].open /\ getRoom(other) # NoCode
            /\ rooms[getRoom(other)].phase = "placing"
            /\ HasPlayer(rooms[getRoom(other)], conns[other].playerId)
            /\ rooms[getRoom(other)].players[conns[other].playerId].ready

\* the player identifiers in use: in some room or on some connection
UsedIds ==
    UNION {SeqToSet(Keys(rooms[code])) : code \in DOMAIN rooms}
        \cup {conns[w].playerId : w \in Conns}

\* C15: JOIN_ROOM with a code not in the registry answers ERROR NO_SUCH_ROOM,
\* and on a room with 2 players ERROR ROOM_FULL; both leave the registry and
\* the connection's binding unchanged.  Otherwise it adds exactly one player
\* with a fresh identifier, empty board, fleet and marks and ready = false,
\* binds the connection to (code, identifier) and answers JOINED with them.
C15_JoinRoomOutcomes ==
    [][\A ws \in Conns : \A code \in Codes \cup {NoCode} :
            JoinRoom(ws, code) =>
                IF code \notin DOMAIN rooms
                THEN /\ sent' = Msg(ws, [type |-> "ERROR", error |-> "NO_SUCH_ROOM"])
                     /\ rooms' = rooms /\ conns' = conns
                ELSE IF Len(Keys(rooms[code])) >= 2
                THEN /\ sent' = Msg(ws, [type |-> "ERROR", error |-> "ROOM_FULL"])
                     /\ rooms' = rooms /\ conns' = conns
                ELSE \E pid \in 1 .. MaxPlayers :
                     /\ pid \notin UsedIds
                     /\ DOMAIN rooms' = DOMAIN rooms
                     /\ \A k \in DOMAIN rooms : k # code => rooms'[k] = rooms[k]
                     /\ Keys(rooms'[code]) = Append(Keys(rooms[code]), pid)
                     /\ \A q \in SeqToSet(Keys(rooms[code])) :
                            rooms'[code].players[q] = rooms[code].players[q]
                     /\ rooms'[code].players[pid] =
                            [id |-> pid, board |-> emptyBoard, ships |-> <<>>,
                             marks |-> emptyBoard, ready |-> FALSE]
                     /\ rooms'[code].phase = rooms[code].phase
                     /\ rooms'[code].turn = rooms[code].turn
                     /\ rooms'[code].winner = rooms[code].winner
                     /\ conns' = [conns EXCEPT ![ws] = [@ EXCEPT !.room = code, !.playerId = pid]]
                     /\ Len(sent') >= 1
                     /\ sent'[1] = [to |-> ws,
                                    msg |-> [type |-> "JOINED", code |-> code, playerId |-> pid]]
      ]_vars

\* C15 witness: JOINED has just been answered to the second player of a room
\* whose first player has already placed a fleet
C15_Witness ==
    /\ Len(sent) >= 1
    /\ sent[1].msg.type = "JOINED"
    /\ Len(Keys(rooms[sent[1].msg.code])) = 2
    /\ rooms[sent[1].msg.code].players[Keys(rooms[sent[1].msg.code])[1]].ships # <<>>
    /\ conns[sent[1].to].playerId = Keys(rooms[sent[1].msg.code])[2]

\* the ROOM_STATE messages of the last step that went to a player who has an
\* opponent
PlayerStates ==
    {i \in 1 .. Len(sent) :
        /\ sent[i].msg.type = "ROOM_STATE"
        /\ sent[i].msg.me.present
        /\ sent[i].msg.opp.present}

\* the stored board of the opponent that message m reports on
StoredOppBoard(m) == rooms[m.code].players[m.opp.id].board

\* C16: in every ROOM_STATE sent to a player, the opponent-board cell at
\* (r,c) is the opponent's true ship identifier if the requester's own marks
\* hold 2 at (r,c), and 0 otherwise (also at cells marked 3 and at unmarked
\* cells); the stored boards are not modified by the projection: a stored
\* board changes only when its owner's PLACE_FLEET is accepted.
C16_OpponentBoardMasked ==
    /\ [](\A i \in PlayerStates : \A x \in Cells :
            sent[i].msg.opp.board[x[1]][x[2]] =
                IF sent[i].msg.me.marks[x[1]][x[2]] = 2
                THEN StoredOppBoard(sent[i].msg)[x[1]][x[2]]
                ELSE 0)
    /\ [][\A code \in DOMAIN rooms \cap DOMAIN rooms' :
            \A pid \in SeqToSet(Keys(rooms[code])) \cap SeqToSet(Keys(rooms'[code])) :
                rooms'[code].players[pid].board # rooms[code].players[pid].board =>
                    \E ws \in Conns : \E payload \in RoomPayloads : \E ready \in BOOLEAN :
                        /\ getRoom(ws) = code /\ conns[ws].playerId = pid
                        /\ AcceptedPlacement(ws, payload)
                        /\ PlaceFleet(ws, payload, ready)
                        /\ rooms'[code].players[pid].board = Sanitized(payload).board]_vars

\* C16 witness: a ROOM_STATE to a player with a hit and a miss on its marks
\* shows the ship at the hit and hides a ship cell not yet hit
C16_Witness ==
    \E i \in PlayerStates :
        /\ \E x \in Cells :
                /\ sent[i].msg.me.marks[x[1]][x[2]] = 2
                /\ sent[i].msg.opp.board[x[1]][x[2]] # 0
        /\ \E y \in Cells : sent[i].msg.me.marks[y[1]][y[2]] = 3
        /\ \E z \in Cells :
                /\ sent[i].msg.me.marks[z[1]][z[2]] = 0
                /\ StoredOppBoard(sent[i].msg)[z[1]][z[2]] # 0
                /\ sent[i].msg.opp.board[z[1]][z[2]] = 0

\* ws is a player of its room and has an opponent that has placed a fleet
SeesOpponent(ws) ==
    /\ conns[ws].open
    /\ getRoom(ws) # NoCode
    /\ HasPlayer(rooms[getRoom(ws)], conns[ws].playerId)
    /\ otherPlayerId(rooms[getRoom(ws)], conns[ws].playerId) # NoPlayer
    /\ Opponent(ws).ships # <<>>

\* the fleets an opponent may have placed instead: those of the valid layouts
\* and, for the board alone, no ship at all
AltFleets ==
    {Sanitized(p) : p \in {q \in RoomPayloads : Sanitized(q).ok}}
        \cup {[ok |-> TRUE, board |-> emptyBoard, ships |-> Sanitized(JBoard(BaseGrid)).ships]}

\* the opponent of ws with the placement of fleet alt wherever ws has not
\* marked a hit: same marks, ready flag, ship ids, lengths and hits
AltOpponent(ws, alt) ==
    [Opponent(ws) EXCEPT
        !.board = [r \in Idx |-> [c \in Idx |->
                        IF MarksOf(ws)[r][c] = 2 THEN Opponent(ws).board[r][c]
                        ELSE alt.board[r][c]]],
        !.ships = [i \in 1 .. Len(@) |-> [@[i] EXCEPT !.cells = alt.ships[i].cells]]]

\* the room of ws with that opponent in place of the real one
AltRoom(ws, alt) ==
    [rooms[getRoom(ws)] EXCEPT
        !.players[otherPlayerId(rooms[getRoom(ws)], conns[ws].playerId)] = AltOpponent(ws, alt)]

\* C17: fog of war as noninterference: two room states that agree on
\* everything except the opponent's ship placement at coordinates the
\* requester has not marked as a hit give the requester the same complete
\* ROOM_STATE; so no message a player receives depends on unhit ship cells.
C17_FogOfWar ==
    \A ws \in Conns : SeesOpponent(ws) =>
        \A alt \in AltFleets :
            roomStateFor(conns[ws], getRoom(ws), AltRoom(ws, alt))
                = roomStateFor(conns[ws], getRoom(ws), rooms[getRoom(ws)])

\* C17 witness: during a battle a player with a hit on its marks has an
\* opponent whose placement differs from another valid one at a cell not hit
C17_Witness ==
    \E ws \in Conns :
        /\ SeesOpponent(ws)
        /\ rooms[getRoom(ws)].phase = "battle"
        /\ \E x \in Cells : MarksOf(ws)[x[1]][x[2]] = 2
        /\ \E alt \in AltFleets :
                /\ alt.board # emptyBoard
                /\ AltOpponent(ws, alt).board # Opponent(ws).board
                /\ AltOpponent(ws, alt).ships # Opponent(ws).ships

\* a phase stays, or moves one step forward
PhaseStep(a, b) ==
    \/ a = b
    \/ a = "placing" /\ b = "battle"
    \/ a = "battle" /\ b = "gameover"

\* C18: within one room's lifetime (from its CREATE_ROOM until its code is
\* deleted or created anew) the phase only moves forward along placing ->
\* battle -> gameover: never from battle back to placing, never from gameover
\* to battle or placing, never from placing straight to gameover.
C18_PhaseOnlyForward ==
    [][\A code \in DOMAIN rooms \cap DOMAIN rooms' :
            (\A ws \in Conns : ~CreateRoom(ws, code)) =>
                PhaseStep(rooms[code].phase, rooms'[code].phase)]_vars

\* C18 witness: a room that has gone through all three phases: the last step
\* told its connections that the game is over
C18_Witness ==
    \E i \in 1 .. Len(sent) :
        /\ sent[i].msg.type = "ROOM_STATE"
        /\ sent[i].msg.phase = "gameover"
        /\ rooms[sent[i].msg.code].phase = "gameover"
        /\ \A pid \in SeqToSet(Keys(rooms[sent[i].msg.code])) :
                rooms[sent[i].msg.code].players[pid].ready

(***************************************************************************)
(* Claims about raw frames                                                 *)
(***************************************************************************)
\* a room the handlers can work with
ValidRoom(room) ==
    /\ room.phase \in {"placing", "battle", "gameover"}
    /\ Len(Keys(room)) <= 2
    /\ DOMAIN room.players = SeqToSet(Keys(room))
    /\ room.turn \in {NoPlayer} \cup SeqToSet(Keys(room))
    /\ room.winner \in {NoPlayer} \cup SeqToSet(Keys(room))

\* C19: no inbound frame is fatal: whatever frame an open connection sends
\* (unparseable text, JSON that is not an object, an unknown type, a known
\* type with missing or ill-typed fields), the handler completes without an
\* uncaught exception, so the process keeps running, the connection stays
\* open and every room is in a valid state.
C19_NoFrameIsFatal ==
    [][\A ws \in Conns : \A frame \in Frames :
          Receive(ws, frame) =>
              /\ up'
              /\ conns'[ws].open
              /\ \A code \in DOMAIN rooms' : ValidRoom(rooms'[code])
      ]_vars

(***************************************************************************)
(* Claims about the rate limiter                                           *)
(***************************************************************************)
RECURSIVE PassedIn(_, _)
\* how many frames of one connection got through at the times in S
PassedIn(log, S) ==
    IF S = {} THEN 0
    ELSE LET t == CHOOSE u \in S : TRUE IN log[t] + PassedIn(log, S \ {t})

\* the times of the interval [t, t + RATE_LIMIT_WINDOW_MS]
RollingSecond(t) == {u \in Times : t <= u /\ u <= t + RATE_LIMIT_WINDOW_MS}

\* C20: per connection, at most RATE_LIMIT_MAX frames get through in any
\* rolling interval of one second, whatever the arrival pattern; a frame over
\* the limit is dropped: it changes no room, is answered by nothing, and is
\* not kept for later.
C20_RollingSecondLimit ==
    /\ [](\A ws \in Conns : \A t \in Times :
            PassedIn(passed[ws], RollingSecond(t)) <= RATE_LIMIT_MAX)
    /\ [][\A ws \in RateConns :
            (\E frame \in RateFrames : OnMessage(ws, frame)) /\ ~okRateResult(limiter'[ws])
                => rooms' = rooms /\ conns' = conns /\ sent' = <<>> /\ passed' = passed
         ]_vars

(***************************************************************************)
(* Claims about the registry and the life of a room                        *)
(***************************************************************************)
\* an open connection is bound to the code
HasClient(cs, code) == \E w \in Conns : cs[w].open /\ cs[w].room = code

\* C21: immediately after a connection closes, the registry holds exactly
\* the rooms of before that an open connection is still bound to, each of
\* them unchanged: a room without one (also one nobody has joined yet) is
\* removed and no other room is.  No code leaves the registry at any other
\* moment.
C21_RoomsRemovedOnClose ==
    [][LET closing == \E ws \in Conns : conns[ws].open /\ conns'[ws].closed IN
       /\ closing =>
            /\ DOMAIN rooms' = {code \in DOMAIN rooms : HasClient(conns', code)}
            /\ \A code \in DOMAIN rooms' : rooms'[code] = rooms[code]
       /\ ~closing => DOMAIN rooms \subseteq DOMAIN rooms'
      ]_vars

\* a close has removed a room that had a player while the other connection
\* is still open
C21_Witness ==
    /\ rooms = <<>>
    /\ nextPid > 0
    /\ \E ws \in Conns : conns[ws].closed
    /\ \E ws \in Conns : conns[ws].open

\* the cells at which two grids differ
Differ(g1, g2) == {x \in Cells : g1[x[1]][x[2]] # g2[x[1]][x[2]]}

\* C23: a player's marks grid is append-only with values in {0,2,3}: a cell
\* changes only from 0 to 2 or 3 and never again, and a player's marks change
\* only in an effective FIRE of that player's connection while the player
\* holds the turn in phase battle, one cell per FIRE.
C23_MarksAppendOnly ==
    /\ [](\A code \in DOMAIN rooms : \A pid \in SeqToSet(Keys(rooms[code])) :
            \A x \in Cells : rooms[code].players[pid].marks[x[1]][x[2]] \in {0, 2, 3})
    /\ [][\A code \in DOMAIN rooms \cap DOMAIN rooms' :
            \A pid \in SeqToSet(Keys(rooms[code])) \cap SeqToSet(Keys(rooms'[code])) :
                LET before == rooms[code].players[pid].marks
                    after == rooms'[code].players[pid].marks
                IN  \/ after = before
                    \/ /\ rooms[code].phase = "battle"
                       /\ rooms[code].turn = pid
                       /\ Cardinality(Differ(before, after)) = 1
                       /\ \A x \in Differ(before, after) :
                            /\ before[x[1]][x[2]] = 0
                            /\ after[x[1]][x[2]] \in {2, 3}
                            /\ \E ws \in Conns :
                                /\ getRoom(ws) = code /\ conns[ws].playerId = pid
                                /\ \E raw \in RawShots(x) : Fire(ws, raw[1], raw[2])
         ]_vars

\* C23 witness: a player whose marks have grown to three cells, shot by shot
C23_Witness ==
    \E code \in DOMAIN rooms : \E pid \in SeqToSet(Keys(rooms[code])) :
        Cardinality({x \in Cells : IsMarked(rooms[code].players[pid].marks, x)}) >= 3

\* the positions in the messages of the step of the ROOM_STATEs sent to w
StatesTo(w) ==
    {i \in 1 .. Len(sent') : sent'[i].to = w /\ sent'[i].msg.type = "ROOM_STATE"}

\* the step has sent a ROOM_STATE to every open connection bound to the code,
\* and the last one each of them got shows the room as the step left it
Broadcasted(code) ==
    \A w \in Conns : (conns'[w].open /\ conns'[w].room = code) =>
        /\ StatesTo(w) # {}
        /\ LET last == CHOOSE i \in StatesTo(w) : \A j \in StatesTo(w) : j <= i
               m == sent'[last].msg
               room == rooms'[code]
               pid == conns'[w].playerId
           IN  /\ m.code = code
               /\ m.phase = room.phase /\ m.turn = room.turn /\ m.winner = room.winner
               /\ m.me.present = HasPlayer(room, pid)
               /\ m.me.present =>
                    /\ m.me.id = pid
                    /\ m.me.board = room.players[pid].board
                    /\ m.me.marks = room.players[pid].marks
                    /\ m.me.ready = room.players[pid].ready
               /\ m.opp.present =>
                    /\ m.opp.id \in SeqToSet(Keys(room)) \ {pid}
                    /\ m.opp.marks = room.players[m.opp.id].marks
                    /\ m.opp.ready = room.players[m.opp.id].ready
                    /\ m.opp.ships = ShipSummary(room.players[m.opp.id].ships)
               /\ m.opp.present = (SeqToSet(Keys(room)) \ {pid} # {})

\* C24: every action that changes a room's state (a successful JOIN_ROOM, an
\* accepted PLACE_FLEET, an effective FIRE) sends within its own handling a
\* ROOM_STATE to every open connection bound to the room's code, and the last
\* one each of them receives shows the room's final state (the battle phase
\* and the turn when PLACE_FLEET starts the battle).  Rejected and no-op
\* actions broadcast nothing: a step that leaves the registry as it was sends
\* no ROOM_STATE, unless it is the answer to one REQUEST_STATE or the
\* broadcast of an accepted PLACE_FLEET that repeats what is stored.
C24_BroadcastOnChange ==
    [][/\ \A code \in DOMAIN rooms \cap DOMAIN rooms' :
            (rooms'[code] # rooms[code] /\ \A ws \in Conns : ~CreateRoom(ws, code)) =>
                Broadcasted(code)
       /\ \A ws \in Conns : \A payload \in RoomPayloads :
            AcceptedPlacement(ws, payload) =>
                \A ready \in BOOLEAN :
                    PlaceFleet(ws, payload, ready) => Broadcasted(getRoom(ws))
       /\ rooms' = rooms =>
            \/ \A i \in 1 .. Len(sent') : sent'[i].msg.type # "ROOM_STATE"
            \/ \E ws \in Conns : RequestState(ws)
            \/ \E ws \in Conns : \E payload \in RoomPayloads :
                    /\ AcceptedPlacement(ws, payload)
                    /\ \E ready \in BOOLEAN : PlaceFleet(ws, payload, ready)
      ]_vars

\* C24 witness: the PLACE_FLEET that starts the battle has sent each of the
\* two players a ROOM_STATE in phase placing and then one in phase battle
C24_Witness ==
    /\ Len(sent) = 4
    /\ \A w \in Conns : \E i, j \in 1 .. Len(sent) :
            /\ i < j
            /\ sent[i].to = w /\ sent[j].to = w
            /\ sent[i].msg.type = "ROOM_STATE" /\ sent[i].msg.phase = "placing"
            /\ sent[j].msg.type = "ROOM_STATE" /\ sent[j].msg.phase = "battle"
            /\ sent[j].msg.turn = rooms[sent[j].msg.code].turn

\* sequence s is the beginning of sequence t
IsPrefix(s, t) == Len(s) <= Len(t) /\ SubSeq(t, 1, Len(s)) = s

\* the error a full room answers with
RoomFull == [type |-> "ERROR", error |-> "ROOM_FULL"]

\* C25: a room's player set only grows and never exceeds two: while the room
\* keeps its registry entry every player stays in it, whatever happens to the
\* connection that joined (a close, another JOIN_ROOM that gives it a new
\* player), so a room that has had two successful joins answers every later
\* JOIN_ROOM with ROOM_FULL and stays as it is.
C25_PlayersOnlyGrow ==
    /\ [](\A code \in DOMAIN rooms : Len(Keys(rooms[code])) <= 2)
    /\ [][\A code \in DOMAIN rooms \cap DOMAIN rooms' :
            /\ (\A ws \in Conns : ~CreateRoom(ws, code)) =>
                    IsPrefix(Keys(rooms[code]), Keys(rooms'[code]))
            /\ Len(Keys(rooms[code])) = 2 =>
                    \A ws \in Conns : JoinRoom(ws, code) =>
                        sent' = Msg(ws, RoomFull) /\ rooms' = rooms /\ conns' = conns
         ]_vars

\* C25 witness: a room with two players, one of which no connection holds any
\* more, has just answered a JOIN_ROOM with ROOM_FULL
C25_Witness ==
    \E code \in DOMAIN rooms :
        /\ Len(Keys(rooms[code])) = 2
        /\ \E pid \in SeqToSet(Keys(rooms[code])) : \A w \in Conns : conns[w].playerId # pid
        /\ \E ws \in Conns : sent = Msg(ws, RoomFull)

\* ws is bound to a live code but its player is not one of that room's
Stale(ws) ==
    /\ conns[ws].open
    /\ getRoom(ws) # NoCode
    /\ conns[ws].playerId # NoPlayer
    /\ ~HasPlayer(rooms[getRoom(ws)], conns[ws].playerId)

AcceptedFleets == {Sanitized(p) : p \in {q \in RoomPayloads : Sanitized(q).ok}}

\* a fleet without its hit lists
Placement(ships) ==
    [i \in 1 .. Len(ships) |->
        [id |-> ships[i].id, length |-> ships[i].length, cells |-> ships[i].cells]]

\* player p holds the fleet clean as the sanitizer returned it
HoldsFleet(p, clean) ==
    p.board = clean.board /\ Placement(p.ships) = Placement(clean.ships)

\* C27: a room in phase battle or gameover has exactly two players, both
\* ready, each holding a fleet the sanitizer accepted; every nonzero cell of a
\* player's board carries the identifier of a ship of that player's fleet
\* (so the lookup of FIRE finds a ship); and once a room has left placing its
\* boards, ship cells and ready flags never change.
C27_FleetsFixedAfterPlacing ==
    /\ [](\A code \in DOMAIN rooms : rooms[code].phase # "placing" =>
            /\ Len(Keys(rooms[code])) = 2
            /\ \A pid \in SeqToSet(Keys(rooms[code])) :
                LET p == rooms[code].players[pid] IN
                /\ p.ready
                /\ \E clean \in AcceptedFleets : HoldsFleet(p, clean)
                /\ \A x \in Cells : p.board[x[1]][x[2]] # EMPTY =>
                        \E i \in 1 .. Len(p.ships) :
                            /\ p.ships[i].id = p.board[x[1]][x[2]]
                            /\ x \in SeqToSet(p.ships[i].cells))
    /\ [][\A code \in DOMAIN rooms \cap DOMAIN rooms' :
            (rooms[code].phase # "placing" /\ rooms'[code].phase # "placing") =>
                /\ Keys(rooms'[code]) = Keys(rooms[code])
                /\ \A pid \in SeqToSet(Keys(rooms[code])) :
                    /\ rooms'[code].players[pid].board = rooms[code].players[pid].board
                    /\ rooms'[code].players[pid].ready = rooms[code].players[pid].ready
                    /\ Placement(rooms'[code].players[pid].ships)
                            = Placement(rooms[code].players[pid].ships)
         ]_vars

\* C27 witness: a battle in which FIRE has looked up a ship and recorded a
\* hit on it
C27_Witness ==
    \E code \in DOMAIN rooms : \E pid \in SeqToSet(Keys(rooms[code])) :
        /\ rooms[code].phase = "battle"
        /\ \E i \in 1 .. Len(rooms[code].players[pid].ships) :
                rooms[code].players[pid].ships[i].hits # <<>>

\* how many cells player pid of the room has marked
Shots(room, pid) ==
    Cardinality({x \in Cells : IsMarked(room.players[pid].marks, x)})

\* C28: effective shots alternate between the two players, starting with the
\* player that got the first turn: in every room the numbers of marked cells
\* of the two players differ by at most 1, and while the phase is battle the
\* turn holder is never the player with more marked cells.
C28_ShotsAlternate ==
    \A code \in DOMAIN rooms : \A pid \in SeqToSet(Keys(rooms[code])) :
        LET room == rooms[code]
            other == otherPlayerId(room, pid)
        IN  other # NoPlayer =>
                /\ Shots(room, pid) <= Shots(room, other) + 1
                /\ (room.phase = "battle" /\ room.turn = pid) =>
                        Shots(room, pid) <= Shots(room, other)

\* C28 witness: a battle in which one player has fired twice and the other
\* once, and the turn is with the one that has fired once
C28_Witness ==
    \E code \in DOMAIN rooms : \E pid \in SeqToSet(Keys(rooms[code])) :
        /\ rooms[code].phase = "battle"
        /\ rooms[code].turn = pid
        /\ otherPlayerId(rooms[code], pid) # NoPlayer
        /\ Shots(rooms[code], pid) = 1
        /\ Shots(rooms[code], otherPlayerId(rooms[code], pid)) = 2

\* C29: hit bookkeeping is consistent: for each player and each of its
\* ships, the hits list has no duplicates and holds exactly the cells of the
\* ship at which the opponent's marks hold 2, so it is never longer than the
\* ship; the opponent's marks hold 2 only at occupied cells of the player's
\* board and 3 only at empty ones.
C29_HitsMatchMarks ==
    \A code \in DOMAIN rooms : \A pid \in SeqToSet(Keys(rooms[code])) :
        LET room == rooms[code]
            other == otherPlayerId(room, pid)
        IN  other # NoPlayer =>
            LET p == room.players[pid]
                marks == room.players[other].marks
            IN  /\ \A i \in 1 .. Len(p.ships) :
                    /\ Cardinality(SeqToSet(p.ships[i].hits)) = Len(p.ships[i].hits)
                    /\ SeqToSet(p.ships[i].hits)
                            = {x \in SeqToSet(p.ships[i].cells) : marks[x[1]][x[2]] = 2}
                    /\ Len(p.ships[i].hits) <= p.ships[i].length
                /\ \A x \in Cells :
                    /\ marks[x[1]][x[2]] = 2 => p.board[x[1]][x[2]] # EMPTY
                    /\ marks[x[1]][x[2]] = 3 => p.board[x[1]][x[2]] = EMPTY

\* C29 witness: a battle in which a ship has been hit in every cell and the
\* player that sank it has also missed once
C29_Witness ==
    \E code \in DOMAIN rooms : \E pid \in SeqToSet(Keys(rooms[code])) :
        /\ rooms[code].phase = "battle"
        /\ otherPlayerId(rooms[code], pid) # NoPlayer
        /\ \E i \in 1 .. Len(rooms[code].players[pid].ships) :
                isSunk(rooms[code].players[pid].ships[i])
        /\ \E x \in Cells :
                rooms[code].players[otherPlayerId(rooms[code], pid)].marks[x[1]][x[2]] = 3

\* C30: gameover is absorbing: once a room's phase is gameover no JOIN_ROOM,
\* PLACE_FLEET, FIRE or REQUEST_STATE changes its phase, turn, winner,
\* players, boards, fleets, hit lists, marks or ready flags; all that can
\* still happen to the room is that it leaves the registry or that a
\* CREATE_ROOM puts a fresh room in its place.
C30_GameoverAbsorbing ==
    [][\A code \in DOMAIN rooms : rooms[code].phase = "gameover" =>
            \/ code \notin DOMAIN rooms'
            \/ rooms'[code] = rooms[code]
            \/ /\ rooms'[code] = NewRoom
               /\ \E ws \in Conns : sent' = Msg(ws, [type |-> "ROOM_CREATED", code |-> code])
      ]_vars

\* C30 witness: a room whose game is over has just answered a JOIN_ROOM with
\* ROOM_FULL
C30_Witness ==
    /\ \E code \in DOMAIN rooms : rooms[code].phase = "gameover"
    /\ \E ws \in Conns : sent = Msg(ws, RoomFull)

\* the code has a room in the given phase
InPhase(code, phase) == code \in DOMAIN rooms /\ rooms[code].phase = phase

\* an open connection is bound to the code as the room's turn holder
HolderPlays(code) ==
    \E ws \in Conns :
        /\ conns[ws].open /\ conns[ws].room = code
        /\ conns[ws].playerId = rooms[code].turn

\* the cells of the opponent's ships that player pid has not marked
OpenTargets(room, pid) ==
    LET them == otherPlayerId(room, pid)
    IN  {x \in Cells : /\ room.players[them].board[x[1]][x[2]] # EMPTY
                       /\ ~IsMarked(room.players[pid].marks, x)}

\* the longest a battle can last: every cell of both grids but one
MaxShots == 2 * SIZE * SIZE - 1

\* the shots the players of the room have fired together
TotalShots(room) == Shots(room, Keys(room)[1]) + Shots(room, Keys(room)[2])

\* C31: a battle cannot get stuck or run forever while the turn holder keeps
\* playing.  In every battle state the turn holder has a cell it has not
\* marked (a cell of the opponent's ships, even), so that a FIRE that counts
\* is possible whenever the turn holder is connected; when the game is over
\* the loser still has such a cell, so the two grids of marks are never both
\* full and the players have fired at most MaxShots shots together; every
\* step that changes a room in battle without creating it anew is an
\* effective FIRE and marks exactly one new cell of the turn holder, none of
\* the other player; so, if a turn holder that can fire at an unmarked cell
\* eventually does, a room in battle eventually reaches gameover, unless the
\* battle is cut short: the room leaves the registry or is created anew, or
\* the turn holder's connection is gone.
C31_BattleEnds ==
    /\ [](\A code \in DOMAIN rooms :
            /\ rooms[code].phase = "battle" =>
                /\ OpenTargets(rooms[code], rooms[code].turn) # {}
                /\ TotalShots(rooms[code]) <= MaxShots
                /\ HolderPlays(code) => ENABLED <<EffectiveFire>>_rooms
            /\ rooms[code].phase = "gameover" =>
                /\ OpenTargets(rooms[code], otherPlayerId(rooms[code], rooms[code].winner)) # {}
                /\ TotalShots(rooms[code]) <= MaxShots)
    /\ [][\A code \in DOMAIN rooms :
            \/ rooms[code].phase # "battle"
            \/ code \notin DOMAIN rooms'
            \/ rooms'[code] = rooms[code]
            \/ rooms'[code].phase = "placing"
            \/ LET me == rooms[code].turn
                   them == otherPlayerId(rooms[code], me)
               IN  /\ EffectiveFire
                   /\ Shots(rooms'[code], me) = Shots(rooms[code], me) + 1
                   /\ rooms'[code].players[them].marks = rooms[code].players[them].marks
         ]_vars
    /\ \A code \in Codes :
            InPhase(code, "battle") ~>
                \/ InPhase(code, "gameover")
                \/ ~InPhase(code, "battle")
                \/ ~HolderPlays(code)

\* C31 witness: a battle has been played to its end: the room is in gameover
\* after effective shots of both players, misses among them
C31_Witness ==
    \E code \in DOMAIN rooms :
        /\ rooms[code].phase = "gameover"
        /\ \A pid \in SeqToSet(Keys(rooms[code])) :
                \E x \in Cells : rooms[code].players[pid].marks[x[1]][x[2]] = 3

(***************************************************************************)
(* Claims about the client's placement test                                *)
(***************************************************************************)
\* the cells a ship of the call would cover
CallCells(call) ==
    {<<call.r + (IF call.h THEN 0 ELSE i), call.c + (IF call.h THEN i ELSE 0)>> :
        i \in 0 .. (call.len - 1)}

\* all of them are inside the grid and empty
AllFree(call) ==
    \A x \in CallCells(call) : inb(x[1], x[2]) /\ call.board[x[1]][x[2]] = EMPTY

\* C22: canPlace returns true if and only if all the cells of the ship lie
\* inside the grid and are empty, and false otherwise, for every start cell,
\* also one outside the grid; it never modifies the board.
C22_CanPlaceIffAllFree ==
    cpRet # NoRet =>
        /\ cpRet.outcome = (IF AllFree(cpCall) THEN "true" ELSE "false")
        /\ cpRet.board = cpCall.board

(***************************************************************************)
(* Claims about the client's fleet and the server's reading of it          *)
(***************************************************************************)
\* the client has submitted its fleet and the server has read it
Submitted == sanPc = "done" /\ Len(client.ships) = Len(SHIPS)

\* two cells that share a side
Beside(x, y) ==
    \/ x[1] = y[1] /\ (x[2] = y[2] + 1 \/ y[2] = x[2] + 1)
    \/ x[2] = y[2] /\ (x[1] = y[1] + 1 \/ y[1] = x[1] + 1)

\* C32: client placement and server validation agree.  Every board built
\* from an empty board by placing ships of lengths 5,4,3,3,2 in that order
\* with placeShip, at positions for which canPlace returned true, is accepted
\* by sanitizeFleet; the board it returns is the submitted board cell for
\* cell, and its ship i has id i, the length and the cells of the client's
\* ship i.
C32_ClientFleetAccepted ==
    Submitted =>
        /\ [i \in 1 .. Len(client.ships) |-> client.ships[i].length] = SHIPS
        /\ sanClean.ok
        /\ sanClean.board = client.board
        /\ Len(sanClean.ships) = Len(client.ships)
        /\ \A i \in 1 .. Len(client.ships) :
                /\ sanClean.ships[i].id = i
                /\ client.ships[i].id = i
                /\ sanClean.ships[i].length = client.ships[i].length
                /\ sanClean.ships[i].cells = client.ships[i].cells

\* C32 witness: a submitted fleet that the server accepted, in which the
\* second ship comes before the first in the server's scan, ships of
\* different ids lie side by side, and the first cell of a vertical ship has
\* another ship to its right
C32_Witness ==
    /\ Submitted
    /\ sanClean.ok
    /\ Lin(client.ships[2].cells[1]) < Lin(client.ships[1].cells[1])
    /\ \E i, j \in 1 .. Len(client.ships) :
            /\ i # j
            /\ client.ships[i].cells[1][2] = client.ships[i].cells[2][2]
            /\ client.ships[j].cells[1] =
                    <<client.ships[i].cells[1][1], client.ships[i].cells[1][2] + 1>>
    /\ \E i, j \in 1 .. Len(client.ships) :
            /\ i # j
            /\ \E x \in SeqToSet(client.ships[i].cells), y \in SeqToSet(client.ships[j].cells) :
                    Beside(x, y)

====
